---- MODULE Spec2Model ----
(***************************************************************************)
(* A model of the math_formula front-end and execution engine:             *)
(*   - Interpreter (src/math_formula/interpreter.py): the stack machine    *)
(*     that executes an operation stream against the node-graph backend;   *)
(*   - Parser (src/math_formula/mf_parser.py): the Pratt parser.           *)
(* Each Python method is a (RECURSIVE) operator over a record holding the  *)
(* object's fields; the actions apply the public entry points.             *)
(***************************************************************************)
EXTENDS Integers, Sequences, FiniteSets, TLC

VARIABLES
    \* ---- Interpreter fields (interpreter.py:19-30)
    tree,              \* self.tree: id of the node tree being filled
    stack,             \* self.stack
    nodes,             \* self.nodes: ids of the nodes the interpreter added
    node_group_trees,  \* self.node_group_trees: name -> inner tree id
    variables,         \* self.variables: name -> value
    function_outputs,  \* self.function_outputs
    socket_table,      \* self.socket_table: str(socket) -> socket
    \* ---- the graph backend the interpreter mutates (bpy)
    btrees,            \* node trees created so far (1 = the tree given to __init__)
    bnodes,            \* nodes created so far, over all trees
    links,             \* tree.links.new calls, in order
    defaults,          \* default_value writes, in order
    \* ---- run status and history of the interpreter run
    err,               \* "none", or the exception that aborted the run
    ng_calls,          \* name -> number of execute_node_group calls that completed
    last,              \* the operation executed last ("init" before the first)
    pre,               \* the interpreter state before the last operation
    steps,             \* number of top-level operations executed
    \* ---- Parser fields (mf_parser.py:46-54) and the scanner it owns
    source,            \* the tokens of the source text, as the scanner cuts them
    scan_pos,          \* the scanner's position: index of the next token
    token_buffer,      \* self.token_buffer
    current,           \* self.current
    previous,          \* self.previous
    had_error,         \* self.had_error
    panic_mode,        \* self.panic_mode
    curr_node,         \* self.curr_node
    errors,            \* self.errors
    \* ---- the call of parse() in progress and its history
    module,            \* module.body of parse()
    done,              \* parse() has returned
    raised,            \* "none", or the exception that left parse()
    ticks,             \* tokens read and loop turns made so far
    log,               \* calls of error_at ("error" when it appended a diagnostic,
                       \* "suppressed" when it did not) and of synchronize
    synchronized,      \* the last turn of parse() called synchronize
    starts             \* self.curr_node as each call of declaration() found it

ivars == <<tree, stack, nodes, node_group_trees, variables, function_outputs,
           socket_table, btrees, bnodes, links, defaults, err, ng_calls,
           last, pre, steps>>

pvars == <<source, scan_pos, token_buffer, current, previous, had_error,
           panic_mode, curr_node, errors, module, done, raised, ticks, log,
           synchronized, starts>>

VARIABLES
    \* ---- Loading of custom implementations (file_loading.py)
    folder,            \* the files of the implementation folders: name -> content
    geometry_nodes,    \* file_data.geometry_nodes
    shader_nodes,      \* file_data.shader_nodes
    load_errors,       \* the list load_custom_implementations returned last
    report,            \* what the operator returned last
    compiled,          \* ghost: the files handed to a compiler by the last load
    request,           \* ghost: the last call, with the folder it found
    loads              \* ghost: number of calls and edits so far

lvars == <<folder, geometry_nodes, shader_nodes, load_errors, report, compiled,
           request, loads>>

vars == <<ivars, pvars, lvars>>

\* ------------------------------------------------------------------------
\* Bounds of the model
\* ------------------------------------------------------------------------
MaxSteps == 3
\* Longest source, in tokens, of which every token sequence is parsed
MaxLen == 3
\* Token reads and loop turns allowed per token of the source
FuelPerToken == 4
\* Most arguments of the calls whose argument lists are enumerated
MaxArgs == 3
\* Calls of the loader and edits of the folder in one run
MaxLoads == 3

\* ------------------------------------------------------------------------
\* Generic helpers
\* ------------------------------------------------------------------------
EmptyMap == [x \in {} |-> 0]
MapPut(m, key, v) == [x \in (DOMAIN m) \cup {key} |-> IF x = key THEN v ELSE m[x]]
Reverse(q) == [i \in 1..Len(q) |-> q[Len(q) + 1 - i]]
Front(q) == SubSeq(q, 1, Len(q) - 1)
Top(q) == q[Len(q)]
Min(a, b) == IF a < b THEN a ELSE b
Max(a, b) == IF a < b THEN b ELSE a

\* ------------------------------------------------------------------------
\* Runtime values and operation payloads
\* ------------------------------------------------------------------------
NoneV == [k |-> "none"]
Const(ty, v) == [k |-> "const", ty |-> ty, v |-> v]   \* int, float, bool constant
Str(s) == [k |-> "str", s |-> s]                      \* a Python str
NameV(id) == [k |-> "name", id |-> id]                \* ast_defs.Name
ListV(items) == [k |-> "list", items |-> items]       \* a Python list
ListLiteral(elts) == [k |-> "listlit", elements |-> elts]  \* ast_defs.ListLiteral
IntC(n) == Const("int", n)
Tuple2(i, v) == [k |-> "tuple", index |-> i, value |-> v]
Sock(n, io, i) == [k |-> "sock", node |-> n, io |-> io, idx |-> i]  \* NodeSocket

IsSocket(v) == v.k = "sock"
IsList(v) == v.k = "list"
IsInt(v) == v.k = "const" /\ v.ty \in {"int", "bool"}
IsStr(v) == v.k = "str"
IsName(v) == v.k = "name"

Op(t, d) == [op_type |-> t, data |-> d]

\* Descriptors (backends/type_defs, consumed read-only)
CompiledFunction(inputs, num_outputs, body) ==
    [k |-> "function", inputs |-> inputs, num_outputs |-> num_outputs, body |-> body]
TypedArg(name, dtype, value) == [name |-> name, dtype |-> dtype, value |-> value]
CompiledNodeGroup(name, inputs, outputs, body) ==
    [k |-> "nodegroup", name |-> name, inputs |-> inputs, outputs |-> outputs,
     body |-> body]
NodeInstance(key, props, inputs, outputs) ==
    [k |-> "node", key |-> key, props |-> props, inputs |-> inputs,
     outputs |-> outputs]

\* ------------------------------------------------------------------------
\* The graph backend (bpy), at the boundary the interpreter uses
\* ------------------------------------------------------------------------
GroupNodeTypes == {"GeometryNodeGroup", "ShaderNodeGroup"}

\* Number of input and output sockets of the builtin node types used here.
NodeTypeInputs(key) ==
    CASE key = "ShaderNodeValue" -> 0
      [] key = "ShaderNodeMath" -> 2
      [] key = "ShaderNodeSeparateXYZ" -> 1
      [] key = "GeometryNodeJoinGeometry" -> 1
      [] key = "GeometryNodeMeshCube" -> 0
      [] key = "GeometryNodeSetPosition" -> 2
      [] OTHER -> 0
NodeTypeOutputs(key) ==
    CASE key = "ShaderNodeValue" -> 1
      [] key = "ShaderNodeMath" -> 1
      [] key = "ShaderNodeSeparateXYZ" -> 3
      [] key = "GeometryNodeJoinGeometry" -> 1
      [] key = "GeometryNodeMeshCube" -> 1
      [] key = "GeometryNodeSetPosition" -> 1
      [] OTHER -> 0
\* Input sockets that are geometry sockets, and those that accept many links.
IsGeometryInput(key, i) ==
    \/ key = "GeometryNodeJoinGeometry" /\ i = 0
    \/ key = "GeometryNodeSetPosition" /\ i = 0
IsMultiInput(key, i) == key = "GeometryNodeJoinGeometry" /\ i = 0

BNode(type, t) ==
    [type |-> type, tree |-> t, label |-> "", node_tree |-> 0, props |-> <<>>]
BTree(name, bl_idname) ==
    [name |-> name, bl_idname |-> bl_idname, inputs |-> <<>>, outputs |-> <<>>]

\* len(node.inputs), len(node.outputs)
NumInputs(s, n) ==
    LET nd == s.bnodes[n] IN
    CASE nd.type \in GroupNodeTypes ->
            IF nd.node_tree = 0 THEN 0 ELSE Len(s.btrees[nd.node_tree].inputs)
      [] nd.type = "NodeGroupOutput" -> Len(s.btrees[nd.tree].outputs)
      [] nd.type = "NodeGroupInput" -> 0
      [] OTHER -> NodeTypeInputs(nd.type)
NumOutputs(s, n) ==
    LET nd == s.bnodes[n] IN
    CASE nd.type \in GroupNodeTypes ->
            IF nd.node_tree = 0 THEN 0 ELSE Len(s.btrees[nd.node_tree].outputs)
      [] nd.type = "NodeGroupInput" -> Len(s.btrees[nd.tree].inputs)
      [] nd.type = "NodeGroupOutput" -> 0
      [] OTHER -> NodeTypeOutputs(nd.type)

\* tree.nodes.new(type): the new node's id is its place in creation order
NodesNew(s, type) == [s EXCEPT !.bnodes = Append(@, BNode(type, s.tree))]
NewNodeId(s) == Len(s.bnodes) + 1
\* tree.links.new(a, b)
LinksNew(s, t, a, b) == [s EXCEPT !.links = Append(@, [tree |-> t, from |-> a, to |-> b])]
\* socket.default_value = v
SetDefault(s, sock, v) == [s EXCEPT !.defaults = Append(@, [sock |-> sock, value |-> v])]
\* str(socket): the text names the socket object, one text per socket
SocketStr(sock) == <<"NodeSocket", sock.node, sock.io, sock.idx>>

Fail(s, e) == [s EXCEPT !.err = e]
Ok(s) == s.err = "none"
Push(s, v) == [s EXCEPT !.stack = Append(@, v)]

\* ------------------------------------------------------------------------
\* Interpreter (interpreter.py).  s is the record of the Interpreter's
\* fields and of the backend; an exception stops the run where it is raised
\* and leaves every field as it was at that point.
\* ------------------------------------------------------------------------

\* get_args: the values returned ...
get_args(stk, num_args) ==
    IF num_args = 0 THEN <<>>
    ELSE SubSeq(stk, Max(1, Len(stk) - num_args + 1), Len(stk))
\* ... and what is left of the stack (stack[:] = stack[:-num_args])
DropArgs(stk, num_args) ==
    IF num_args = 0 THEN stk
    ELSE SubSeq(stk, 1, Max(0, Len(stk) - num_args))

RECURSIVE GetOutputSocketSeq(_, _)
\* get_output_socket
get_output_socket(s, value) ==
    IF IsList(value) THEN ListV(GetOutputSocketSeq(s, value.items))
    ELSE IF IsSocket(value) /\ SocketStr(value) \in DOMAIN s.socket_table
         THEN s.socket_table[SocketStr(value)]
    ELSE value
GetOutputSocketSeq(s, items) ==
    IF items = <<>> THEN <<>>
    ELSE <<get_output_socket(s, Head(items))>> \o GetOutputSocketSeq(s, Tail(items))

\* One element of a list argument: resolve a Name through the variables,
\* look the value up, and link it when it is a socket.
ResolveName(s, geo_input) ==
    IF IsName(geo_input) /\ geo_input.id \in DOMAIN s.variables
    THEN s.variables[geo_input.id] ELSE geo_input
LinkIfSocket(s, socket, target) ==
    IF IsSocket(socket) THEN LinksNew(s, s.tree, socket, target) ELSE s
LinkListElement(s, geo_input, target) ==
    LinkIfSocket(s, get_output_socket(s, ResolveName(s, geo_input)), target)

\* Only the first element of the list is linked
LinkListElements_First(s, items, target) ==
    IF items = <<>> THEN s ELSE LinkListElement(s, Head(items), target)
RECURSIVE LinkListElements(_, _, _)
LinkListElements(s, items, target) ==
    IF items = <<>> THEN s
    ELSE LinkListElements(LinkListElement(s, Head(items), target), Tail(items), target)

\* add_builtin, the body of its loop for position i (1-based) of node n
ConnectInput(s, n, node_info, args, i) ==
    IF i > Len(args) THEN Fail(s, "IndexError")
    ELSE
    LET arg == args[i]
        input_index == node_info.inputs[i]
        key == s.bnodes[n].type
        in_range == input_index >= 0 /\ input_index < NumInputs(s, n)
    IN  CASE IsSocket(arg) ->
                IF in_range THEN LinksNew(s, s.tree, arg, Sock(n, "in", input_index))
                ELSE Fail(s, "IndexError")
          [] IsList(arg) ->
                IF key = "GeometryNodeJoinGeometry"
                THEN LinkListElements(s, Reverse(arg.items), Sock(n, "in", 0))
                ELSE IF ~in_range THEN Fail(s, "IndexError")
                ELSE IF IsGeometryInput(key, input_index)
                     THEN IF IsMultiInput(key, input_index)
                          THEN LinkListElements(s, arg.items, Sock(n, "in", input_index))
                          ELSE IF arg.items = <<>> THEN Fail(s, "IndexError")
                          ELSE IF IsSocket(arg.items[1])
                               THEN LinksNew(s, s.tree, arg.items[1],
                                             Sock(n, "in", input_index))
                               ELSE s
                     ELSE s
          [] OTHER ->
                IF ~in_range THEN Fail(s, "IndexError")
                ELSE IF arg # NoneV THEN SetDefault(s, Sock(n, "in", input_index), arg)
                ELSE s

RECURSIVE ConnectInputs(_, _, _, _, _)
ConnectInputs(s, n, node_info, args, i) ==
    IF ~Ok(s) \/ i > Len(node_info.inputs) THEN s
    ELSE ConnectInputs(ConnectInput(s, n, node_info, args, i), n, node_info, args, i + 1)

\* add_builtin: the state after it; the node it returns is the newest node
add_builtin(s, node_info, args) ==
    LET n == NewNodeId(s)
        s1 == NodesNew(s, node_info.key)
        s2 == [s1 EXCEPT !.bnodes[n].props = node_info.props]
    IN  ConnectInputs(s2, n, node_info, args, 1)

\* data_type_to_socket_type
data_type_to_socket_type(dtype) ==
    CASE dtype = "BOOL" -> "NodeSocketBool"
      [] dtype = "INT" -> "NodeSocketInt"
      [] dtype = "FLOAT" -> "NodeSocketFloat"
      [] dtype = "RGBA" -> "NodeSocketColor"
      [] dtype = "VEC3" -> "NodeSocketVector"
      [] dtype = "GEOMETRY" -> "NodeSocketGeometry"
      [] dtype = "STRING" -> "NodeSocketString"
      [] dtype = "SHADER" -> "NodeSocketShader"
      [] dtype = "OBJECT" -> "NodeSocketObject"
      [] dtype = "IMAGE" -> "NodeSocketImage"
      [] dtype = "COLLECTION" -> "NodeSocketCollection"
      [] dtype = "TEXTURE" -> "NodeSocketTexture"
      [] dtype = "MATERIAL" -> "NodeSocketMaterial"
      [] dtype = "ROTATION" -> "NodeSocketRotation"
      [] OTHER -> "Unreachable"

\* node_tree.interface.new_socket for each declared input / output
RECURSIVE NewInterfaceSockets(_, _, _, _)
NewInterfaceSockets(s, t, in_out, decls) ==
    IF ~Ok(s) \/ decls = <<>> THEN s
    ELSE LET d == Head(decls)
             ty == data_type_to_socket_type(d.dtype)
             item == [name |-> d.name, socket_type |-> ty, default_value |-> d.value]
         IN  IF ty = "Unreachable" THEN Fail(s, "AssertionError")
             ELSE NewInterfaceSockets(
                    IF in_out = "INPUT"
                    THEN [s EXCEPT !.btrees[t].inputs = Append(@, item)]
                    ELSE [s EXCEPT !.btrees[t].outputs = Append(@, item)],
                    t, in_out, Tail(decls))

\* for socket in group_input.outputs: self.variables[socket.name] = socket
RECURSIVE BindGroupInputs(_, _, _, _)
BindGroupInputs(m, s, gi, i) ==
    IF i >= NumOutputs(s, gi) THEN m
    ELSE BindGroupInputs(MapPut(m, s.btrees[s.bnodes[gi].tree].inputs[i + 1].name,
                                Sock(gi, "out", i)), s, gi, i + 1)

\* Connect to the group outputs (lines 283-288)
RECURSIVE ConnectGroupOutputs(_, _, _, _)
ConnectGroupOutputs(s, t, go, index) ==
    IF ~Ok(s) \/ index >= Len(s.function_outputs) THEN s
    ELSE LET foutput == s.function_outputs[index + 1]
             s1 == IF IsSocket(foutput)
                   THEN IF index < NumInputs(s, go)
                        THEN LinksNew(s, t, foutput, Sock(go, "in", index))
                        ELSE Fail(s, "IndexError")
                   ELSE IF foutput # NoneV
                        THEN IF index < NumInputs(s, go)
                             THEN SetDefault(s, Sock(go, "in", index), foutput)
                             ELSE Fail(s, "IndexError")
                        ELSE s
         IN  ConnectGroupOutputs(s1, t, go, index + 1)

\* Connect the arguments to the reference node (lines 307-311)
RECURSIVE ConnectGroupArgs(_, _, _, _)
ConnectGroupArgs(s, node, args, i) ==
    IF ~Ok(s) \/ i >= Len(args) THEN s
    ELSE LET arg == args[i + 1]
             s1 == IF arg = NoneV THEN s
                   ELSE IF i >= NumInputs(s, node) THEN Fail(s, "IndexError")
                   ELSE IF IsSocket(arg)
                        THEN LinksNew(s, s.tree, arg, Sock(node, "in", i))
                        ELSE SetDefault(s, Sock(node, "in", i), arg)
         IN  ConnectGroupArgs(s1, node, args, i + 1)

\* zip(op_data.inputs, args) bound into a fresh environment
RECURSIVE BindArgs(_, _, _, _)
BindArgs(m, inputs, args, i) ==
    IF i > Min(Len(inputs), Len(args)) THEN m
    ELSE BindArgs(MapPut(m, inputs[i], args[i]), inputs, args, i + 1)

\* The name-chasing loop of CREATE_VAR: the value it ends with, or "Hang"
\* when it reaches a Name it has already been at (the loop has no other state).
RECURSIVE ChaseName(_, _, _)
ChaseName(env, socket, seen) ==
    IF ~IsName(socket) THEN socket
    ELSE IF socket.id \in seen THEN Str("Hang")
    ELSE ChaseName(env, IF socket.id \in DOMAIN env THEN env[socket.id] ELSE socket,
                   seen \cup {socket.id})

\* elements = [self.stack.pop() for _ in range(count)]
RECURSIVE PopMany(_, _, _)
PopMany(s, count, acc) ==
    IF count <= 0 THEN [s |-> s, elements |-> acc]
    ELSE IF s.stack = <<>> THEN [s |-> Fail(s, "IndexError"), elements |-> acc]
    ELSE PopMany([s EXCEPT !.stack = Front(@)], count - 1, Append(acc, Top(s.stack)))

\* A stack that keeps its values at the end of a statement
end_of_statement_keep(s) == s
\* END_OF_STATEMENT (lines 137-138): self.stack = []
end_of_statement(s) == [s EXCEPT !.stack = <<>>]

NoneList(n) == [i \in 1..n |-> NoneV]
AllSockets(q) == \A i \in 1..Len(q) : IsSocket(q[i])

RECURSIVE operation(_, _), ExecOps(_, _), PushListLiteral(_, _, _)

\* for operation in body: self.operation(operation)
ExecOps(s, ops) ==
    IF ~Ok(s) \/ ops = <<>> THEN s
    ELSE ExecOps(operation(s, Head(ops)), Tail(ops))

\* Lines 37-43: a ListLiteral payload is evaluated element by element;
\* s1 is the state after the push of the first of the elements left
PopEvaluated(s1, elements, evaluated) ==
    IF ~Ok(s1) THEN s1
    ELSE IF s1.stack = <<>> THEN Fail(s1, "IndexError")
    ELSE PushListLiteral([s1 EXCEPT !.stack = Front(@)], Tail(elements),
                         Append(evaluated, Top(s1.stack)))
PushListLiteral(s, elements, evaluated) ==
    IF ~Ok(s) THEN s
    ELSE IF elements = <<>> THEN Push(s, ListV(evaluated))
    ELSE PopEvaluated(operation(s, Op("PUSH_VALUE", Head(elements))), elements, evaluated)

\* The state in which a function body starts (lines 91-100)
\* The parameters bound on top of the caller's environment
EnterFunction_Inherit(s, f) ==
    [s EXCEPT !.variables = BindArgs(s.variables, f.inputs,
                                     get_args(s.stack, Len(f.inputs)), 1),
              !.function_outputs = NoneList(f.num_outputs),
              !.stack = <<>>]
EnterFunction(s, f) ==
    [s EXCEPT !.variables = BindArgs(EmptyMap, f.inputs,
                                     get_args(s.stack, Len(f.inputs)), 1),
              !.function_outputs = NoneList(f.num_outputs),
              !.stack = <<>>]

\* What a call pushes for several output ports: the ports in reverse order
StructOf(ports) == ListV(Reverse(ports))

LeaveFunction_KeepEnv(s, inner, outer_stack) ==
    IF ~Ok(inner) THEN inner
    ELSE [inner EXCEPT !.stack = IF Len(inner.function_outputs) = 0 THEN outer_stack
                                 ELSE IF Len(inner.function_outputs) = 1
                                 THEN Append(outer_stack, inner.function_outputs[1])
                                 ELSE Append(outer_stack, StructOf(inner.function_outputs)),
                       !.function_outputs = s.function_outputs]
\* Restore the state outside the function (lines 105-115); inner is the state
\* at the end of the body, outer_stack the caller's stack without the arguments
LeaveFunction(s, inner, outer_stack) ==
    IF ~Ok(inner) THEN inner
    ELSE IF Len(inner.function_outputs) = 1
    THEN IF ~IsSocket(inner.function_outputs[1])
         THEN Fail([inner EXCEPT !.stack = outer_stack], "AssertionError")
         ELSE [inner EXCEPT !.stack = Append(outer_stack, inner.function_outputs[1]),
                            !.function_outputs = s.function_outputs,
                            !.variables = s.variables]
    ELSE IF Len(inner.function_outputs) > 1
    THEN IF ~AllSockets(inner.function_outputs)
         THEN Fail([inner EXCEPT !.stack = outer_stack], "AssertionError")
         ELSE [inner EXCEPT !.stack = Append(outer_stack, StructOf(inner.function_outputs)),
                            !.function_outputs = s.function_outputs,
                            !.variables = s.variables]
    ELSE [inner EXCEPT !.stack = outer_stack,
                       !.function_outputs = s.function_outputs,
                       !.variables = s.variables]

\* CALL_FUNCTION (lines 89-115)
CallFunction(s, f) ==
    LeaveFunction(s, ExecOps(EnterFunction(s, f), f.body),
                  DropArgs(s.stack, Len(f.inputs)))

IsCached_NeverHit(s, name) == FALSE
\* Whether execute_node_group finds the inner tree in the cache (line 243)
IsCached(s, name) == name \in DOMAIN s.node_group_trees

\* Lines 265-266: the gateway nodes of the inner tree; s3 is the state after
\* the interface sockets were declared
NewGatewayNodes(s3, node_tree) ==
    IF ~Ok(s3) THEN s3
    ELSE NodesNew(NodesNew([s3 EXCEPT !.tree = node_tree], "NodeGroupInput"),
                  "NodeGroupOutput")

\* Lines 247-266: the inner tree, its interface and its gateway nodes
NewInnerTree(s, node_group, node_tree) ==
    NewGatewayNodes(
        NewInterfaceSockets(
            NewInterfaceSockets(
                [s EXCEPT !.btrees =
                    Append(@, BTree(node_group.name, s.btrees[s.tree].bl_idname))],
                node_tree, "INPUT", node_group.inputs),
            node_tree, "OUTPUT", node_group.outputs),
        node_tree)

\* Lines 268-278: the state in which the body of the node group starts
EnterNodeGroup(s4, node_group, group_input) ==
    [s4 EXCEPT !.variables = BindGroupInputs(EmptyMap, s4, group_input, 0),
               !.function_outputs = NoneList(Len(node_group.outputs)),
               !.stack = <<>>]

\* A cache that holds the tree built last and nothing else
LeaveNodeGroup_CacheLast(s, node_group, wired, node_tree) ==
    IF ~Ok(wired) THEN wired
    ELSE [wired EXCEPT !.stack = s.stack,
                       !.function_outputs = s.function_outputs,
                       !.variables = s.variables,
                       !.tree = s.tree,
                       !.node_group_trees = MapPut(EmptyMap, node_group.name, node_tree)]
\* The inner tree stays the target graph after the build
LeaveNodeGroup_StayInside(s, node_group, wired, node_tree) ==
    IF ~Ok(wired) THEN wired
    ELSE [wired EXCEPT !.stack = s.stack,
                       !.function_outputs = s.function_outputs,
                       !.variables = s.variables,
                       !.node_group_trees = MapPut(@, node_group.name, node_tree)]
\* Lines 290-296: restore the state outside the node group and cache the tree
LeaveNodeGroup(s, node_group, wired, node_tree) ==
    IF ~Ok(wired) THEN wired
    ELSE [wired EXCEPT !.stack = s.stack,
                       !.function_outputs = s.function_outputs,
                       !.variables = s.variables,
                       !.tree = s.tree,
                       !.node_group_trees = MapPut(@, node_group.name, node_tree)]

\* Lines 279-296; s4 is the state with the inner tree created
RunNodeGroupBody(s, node_group, s4, node_tree) ==
    IF ~Ok(s4) THEN s4
    ELSE LeaveNodeGroup(s, node_group,
            ConnectGroupOutputs(
                ExecOps(EnterNodeGroup(s4, node_group, Len(s4.bnodes) - 1),
                        node_group.body),
                node_tree, Len(s4.bnodes), 0),
            node_tree)

\* Lines 246-296: build the inner tree of a node group and cache it
BuildNodeGroup(s, node_group) ==
    RunNodeGroupBody(s, node_group, NewInnerTree(s, node_group, Len(s.btrees) + 1),
                     Len(s.btrees) + 1)

\* Lines 299-306: the reference node, bound to the inner tree
NewGroupNode(s1, node_group) ==
    [NodesNew(s1, IF s1.btrees[s1.tree].bl_idname = "GeometryNodeTree"
                  THEN "GeometryNodeGroup" ELSE "ShaderNodeGroup")
       EXCEPT !.bnodes[NewNodeId(s1)].node_tree = s1.node_group_trees[node_group.name]]

\* The outputs of a reference node, in declaration order
GroupNodeOutputs(s, node) == [i \in 1..NumOutputs(s, node) |-> Sock(node, "out", i - 1)]

\* Lines 312-319; s3 is the state with the arguments connected
PushGroupOutputs(s3, node_group, node) ==
    IF ~Ok(s3) THEN s3
    ELSE [s3 EXCEPT
            !.nodes = Append(@, node),
            !.stack = IF NumOutputs(s3, node) = 1 THEN Append(@, Sock(node, "out", 0))
                      ELSE IF NumOutputs(s3, node) > 1
                      THEN Append(@, StructOf(GroupNodeOutputs(s3, node)))
                      ELSE @,
            !.ng_calls = MapPut(@, node_group.name,
                                IF node_group.name \in DOMAIN @
                                THEN @[node_group.name] + 1 ELSE 1)]

\* Lines 298-319; s1 is the state with the inner tree in the cache
AddGroupNode(s1, node_group, args) ==
    IF ~Ok(s1) THEN s1
    ELSE PushGroupOutputs(
            ConnectGroupArgs(NewGroupNode(s1, node_group), NewNodeId(s1), args, 0),
            node_group, NewNodeId(s1))

\* execute_node_group (lines 242-319); s.stack no longer holds the arguments
execute_node_group(s, node_group, args) ==
    AddGroupNode(IF IsCached(s, node_group.name) THEN s
                 ELSE BuildNodeGroup(s, node_group),
                 node_group, args)

\* The output ports of a builtin node that the descriptor names, in its order
BuiltinOutputs(node, outputs) == [i \in 1..Len(outputs) |-> Sock(node, "out", outputs[i])]

\* Lines 127-134; s1 is the state after add_builtin
PushBuiltinOutputs(s1, node, outputs) ==
    IF ~Ok(s1) THEN s1
    ELSE IF \E i \in 1..Len(outputs) :
               ~(outputs[i] >= 0 /\ outputs[i] < NumOutputs(s1, node))
    THEN Fail(s1, "IndexError")
    ELSE IF Len(outputs) = 1
    THEN [s1 EXCEPT
            !.socket_table = MapPut(@, SocketStr(BuiltinOutputs(node, outputs)[1]),
                                    BuiltinOutputs(node, outputs)[1]),
            !.stack = Append(@, BuiltinOutputs(node, outputs)[1]),
            !.nodes = Append(@, node)]
    ELSE IF Len(outputs) > 1
    THEN [s1 EXCEPT !.stack = Append(@, StructOf(BuiltinOutputs(node, outputs))),
                    !.nodes = Append(@, node)]
    ELSE [s1 EXCEPT !.nodes = Append(@, node)]

CallBuiltin_Untracked(s, node_info) ==
    [PushBuiltinOutputs(
        add_builtin([s EXCEPT !.stack = DropArgs(@, Len(node_info.inputs))],
                   node_info, get_args(s.stack, Len(node_info.inputs))),
        NewNodeId(s), node_info.outputs) EXCEPT !.nodes = s.nodes]
\* CALL_BUILTIN (lines 120-134)
CallBuiltin(s, node_info) ==
    PushBuiltinOutputs(
        add_builtin([s EXCEPT !.stack = DropArgs(@, Len(node_info.inputs))],
                   node_info, get_args(s.stack, Len(node_info.inputs))),
        NewNodeId(s), node_info.outputs)

GetOutput_Forward(struct, index) == struct.items[index + 1]
\* GET_OUTPUT (lines 65-73): struct[-index - 1]
GetOutput(struct, index) == struct.items[Len(struct.items) - index]

PackElements_NoReverse(popped) == ListV(popped)
\* PACK_LIST (lines 139-143): the list built from the popped elements
PackElements(popped) == ListV(Reverse(popped))

\* SPLIT_STRUCT (lines 83-88): self.stack += struct
SplitOnto(stk, struct) == stk \o struct.items

\* operation (lines 32-146)
operation(s, op) ==
    LET op_type == op.op_type
        op_data == op.data
    IN
    IF ~Ok(s) THEN s
    ELSE IF op_data.k = "listlit" THEN PushListLiteral(s, op_data.elements, <<>>)
    ELSE CASE op_type = "PUSH_VALUE" -> Push(s, op_data)
      [] op_type = "CREATE_VAR" ->
            IF ~IsStr(op_data) THEN Fail(s, "AssertionError")
            ELSE IF s.stack = <<>> THEN Fail(s, "IndexError")
            ELSE LET s1 == [s EXCEPT !.stack = Front(@)]
                     socket == ChaseName(s.variables, Top(s.stack), {})
                 IN  IF socket = Str("Hang") THEN Fail(s1, "Hang")
                     ELSE IF ~(IsSocket(socket) \/ IsList(socket) \/ IsInt(socket))
                     THEN Fail(s1, "AssertionError")
                     ELSE [s1 EXCEPT !.variables = MapPut(@, op_data.s, socket)]
      [] op_type = "GET_VAR" ->
            IF ~IsStr(op_data) THEN Fail(s, "AssertionError")
            ELSE IF op_data.s \notin DOMAIN s.variables THEN Fail(s, "KeyError")
            ELSE Push(s, s.variables[op_data.s])
      [] op_type = "GET_OUTPUT" ->
            IF ~IsInt(op_data) THEN Fail(s, "AssertionError")
            ELSE IF s.stack = <<>> THEN Fail(s, "IndexError")
            ELSE LET s1 == [s EXCEPT !.stack = Front(@)]
                     struct == Top(s.stack)
                     index == op_data.v
                 IN  IF ~IsList(struct) THEN Fail(s1, "AssertionError")
                     ELSE IF ~(-index - 1 >= -Len(struct.items)
                               /\ -index - 1 < Len(struct.items))
                     THEN Fail(s1, "IndexError")
                     ELSE IF index < 0
                     THEN Push(s1, struct.items[-index])
                     ELSE Push(s1, GetOutput(struct, index))
      [] op_type = "SET_OUTPUT" ->
            IF op_data.k # "tuple" THEN Fail(s, "AssertionError")
            ELSE IF s.nodes = <<>> THEN Fail(s, "IndexError")
            ELSE IF ~(op_data.index >= 0 /\ op_data.index < NumOutputs(s, Top(s.nodes)))
            THEN Fail(s, "IndexError")
            ELSE SetDefault(s, Sock(Top(s.nodes), "out", op_data.index), op_data.value)
      [] op_type = "SET_FUNCTION_OUT" ->
            IF ~IsInt(op_data) THEN Fail(s, "AssertionError")
            ELSE IF s.stack = <<>> THEN Fail(s, "IndexError")
            ELSE LET s1 == [s EXCEPT !.stack = Front(@)]
                     socket == Top(s.stack)
                 IN  IF ~IsSocket(socket) THEN Fail(s1, "AssertionError")
                     ELSE IF ~(op_data.v >= 0 /\ op_data.v < Len(s.function_outputs))
                     THEN Fail(s1, "IndexError")
                     ELSE [s1 EXCEPT !.function_outputs[op_data.v + 1] = socket]
      [] op_type = "SPLIT_STRUCT" ->
            IF s.stack = <<>> THEN Fail(s, "IndexError")
            ELSE LET s1 == [s EXCEPT !.stack = Front(@)]
                     struct == Top(s.stack)
                 IN  IF ~IsList(struct) THEN Fail(s1, "AssertionError")
                     ELSE [s1 EXCEPT !.stack = SplitOnto(@, struct)]
      [] op_type = "CALL_FUNCTION" ->
            IF op_data.k # "function" THEN Fail(s, "AssertionError")
            ELSE CallFunction(s, op_data)
      [] op_type = "CALL_NODEGROUP" ->
            IF op_data.k # "nodegroup" THEN Fail(s, "AssertionError")
            ELSE execute_node_group(
                    [s EXCEPT !.stack = DropArgs(@, Len(op_data.inputs))],
                    op_data, get_args(s.stack, Len(op_data.inputs)))
      [] op_type = "CALL_BUILTIN" ->
            IF op_data.k # "node" THEN Fail(s, "AssertionError")
            ELSE CallBuiltin(s, op_data)
      [] op_type = "RENAME_NODE" ->
            IF s.nodes = <<>> THEN Fail(s, "IndexError")
            ELSE [s EXCEPT !.bnodes[Top(s.nodes)].label = op_data.s]
      [] op_type = "END_OF_STATEMENT" -> end_of_statement(s)
      [] op_type = "PACK_LIST" ->
            IF ~IsInt(op_data) THEN Fail(s, "AssertionError")
            ELSE LET r == PopMany(s, op_data.v, <<>>)
                 IN  IF ~Ok(r.s) THEN r.s
                     ELSE Push(r.s, PackElements(r.elements))
      [] OTHER -> Fail(s, "NotImplementedError")

\* ------------------------------------------------------------------------
\* Parser (mf_parser.py).  p is the record of the Parser's fields, of the
\* scanner it reads from and of the value the last call returned (ret); an
\* exception stops the parse where it is raised (raised # "none").
\* ------------------------------------------------------------------------

\* Precedence (lines 10-23)
NONE == 0
ASSIGNMENT == 1
OR == 2
AND == 3
NOT == 4
COMPARISON == 5
TERM == 6
FACTOR == 7
UNARY == 8
EXPONENT == 9
ATTRIBUTE == 10
CALL == 11
PRIMARY == 12

ParseRule(prefix, infix, precedence) ==
    [prefix |-> prefix, infix |-> infix, precedence |-> precedence]

\* rules (lines 608-652), indexed by the token kind
rules(token_type) ==
    CASE token_type = "LEFT_PAREN" -> ParseRule("grouping", "call", CALL)
      [] token_type = "LEFT_BRACE" -> ParseRule("make_vector", "None", NONE)
      [] token_type = "DOT" -> ParseRule("None", "dot", ATTRIBUTE)
      [] token_type = "MINUS" -> ParseRule("unary", "binary", TERM)
      [] token_type = "PLUS" -> ParseRule("None", "binary", TERM)
      [] token_type = "PERCENT" -> ParseRule("None", "binary", FACTOR)
      [] token_type = "SLASH" -> ParseRule("None", "binary", FACTOR)
      [] token_type = "HAT" -> ParseRule("None", "binary", EXPONENT)
      [] token_type = "GREATER" -> ParseRule("None", "binary", COMPARISON)
      [] token_type = "LESS" -> ParseRule("None", "binary", COMPARISON)
      [] token_type = "UNDERSCORE" -> ParseRule("default", "None", NONE)
      [] token_type = "STAR" -> ParseRule("None", "binary", FACTOR)
      [] token_type = "STAR_STAR" -> ParseRule("None", "binary", EXPONENT)
      [] token_type = "LESS_EQUAL" -> ParseRule("None", "binary", COMPARISON)
      [] token_type = "GREATER_EQUAL" -> ParseRule("None", "binary", COMPARISON)
      [] token_type = "EQUAL_EQUAL" -> ParseRule("None", "binary", COMPARISON)
      [] token_type = "BANG_EQUAL" -> ParseRule("None", "binary", COMPARISON)
      [] token_type = "IDENTIFIER" -> ParseRule("identifier", "None", NONE)
      [] token_type = "INT" -> ParseRule("make_int", "None", NONE)
      [] token_type = "FLOAT" -> ParseRule("make_float", "None", NONE)
      [] token_type = "PYTHON" -> ParseRule("python", "None", NONE)
      [] token_type = "STRING" -> ParseRule("string", "None", NONE)
      [] token_type = "GROUP_NAME" -> ParseRule("group_name", "None", NONE)
      [] token_type = "TRUE" -> ParseRule("boolean", "None", NONE)
      [] token_type = "FALSE" -> ParseRule("boolean", "None", NONE)
      [] token_type = "NOT" -> ParseRule("unary", "None", NOT)
      [] token_type = "OR" -> ParseRule("None", "binary", OR)
      [] token_type = "AND" -> ParseRule("None", "binary", AND)
      [] OTHER -> ParseRule("None", "None", NONE)

\* get_rule (lines 126-127)
get_rule(token_type) == rules(token_type)

\* Tokens as the scanner delivers them.  A lexeme is its sequence of characters.
Token(token_type, lexeme, line, col, error) ==
    [token_type |-> token_type, lexeme |-> lexeme, line |-> line, col |-> col,
     error |-> error]
EOLToken(col) == Token("EOL", <<>>, 1, col, "")

\* scanner.scan_token: the next token of the source, the end-of-input marker
\* for ever once the source is exhausted
scan_token(p) ==
    IF p.scan_pos <= Len(p.source)
    THEN Token(p.source[p.scan_pos].token_type, p.source[p.scan_pos].lexeme, 1,
               p.scan_pos, p.source[p.scan_pos].error)
    ELSE EOLToken(Len(p.source) + 1)

\* AST nodes (ast_defs); the token each node carries is left out
Constant(value, type) == [k |-> "Constant", value |-> value, type |-> type]
UnaryOp(op, operand) == [k |-> "UnaryOp", op |-> op, operand |-> operand]
BinOp(left, op, right) == [k |-> "BinOp", left |-> left, op |-> op, right |-> right]
Vec3(x, y, z) == [k |-> "Vec3", x |-> x, y |-> y, z |-> z]
Call(func, pos_args, keyword_args) ==
    [k |-> "Call", func |-> func, pos_args |-> pos_args, keyword_args |-> keyword_args]
Attribute(value, attr) == [k |-> "Attribute", value |-> value, attr |-> attr]
Keyword(arg, value) == [k |-> "Keyword", arg |-> arg, value |-> value]
Assign(targets, value) == [k |-> "Assign", targets |-> targets, value |-> value]
OutNode(targets, value) == [k |-> "Out", targets |-> targets, value |-> value]
ArgNode(arg, var_type, default) ==
    [k |-> "arg", arg |-> arg, var_type |-> var_type, default |-> default]
FunctionDef(name, args, body, returns) ==
    [k |-> "FunctionDef", name |-> name, args |-> args, body |-> body,
     returns |-> returns]
NodegroupDef(name, args, body, returns) ==
    [k |-> "NodegroupDef", name |-> name, args |-> args, body |-> body,
     returns |-> returns]
Loop(var, start, end, body) ==
    [k |-> "Loop", var |-> var, start |-> start, end |-> end, body |-> body]
ExprKinds == {"Constant", "name", "UnaryOp", "BinOp", "Vec3", "Call", "Attribute",
              "listlit"}
IsExpr(node) == node.k \in ExprKinds

Running(p) == p.raised = "none"
Raise(p, e) == [p EXCEPT !.raised = e]
Return(p, v) == [p EXCEPT !.ret = v]
\* One more iteration of a loop or one more token read; the parse is cut off
\* ("Diverged") when it has made more of them than p.fuel
Tick(p) ==
    IF ~Running(p) THEN p
    ELSE IF p.ticks >= p.fuel THEN Raise(p, "Diverged")
    ELSE [p EXCEPT !.ticks = @ + 1]

\* The text of a diagnostic (lines 76-83), as its parts
ErrorText(token, message) ==
    <<"line:", token.line, ":", token.col, ": Error",
      IF token.token_type = "EOL" THEN <<" at end:">>
      ELSE IF token.token_type = "ERROR" THEN <<>>
      ELSE <<" at \"", token.lexeme, "\":">>,
      " ", message>>
Error(token, message) == [token |-> token, message |-> message]

\* error_at without the test of panic_mode: every report is appended
error_at_unsuppressed(p, token, message) ==
    IF ~Running(p) THEN p
    ELSE [p EXCEPT !.panic_mode = TRUE,
                   !.errors = Append(@, Error(token, ErrorText(token, message))),
                   !.had_error = TRUE,
                   !.log = Append(@, "error")]
\* error_at (lines 72-84)
error_at(p, token, message) ==
    IF ~Running(p) THEN p
    ELSE IF p.panic_mode THEN [p EXCEPT !.log = Append(@, "suppressed")]
    ELSE [p EXCEPT !.panic_mode = TRUE,
                   !.errors = Append(@, Error(token, ErrorText(token, message))),
                   !.had_error = TRUE,
                   !.log = Append(@, "error")]
\* error_at_current, error (lines 66-70)
error_at_current(p, message) == error_at(p, p.current, message)
error(p, message) == error_at(p, p.previous, message)

\* The loop of advance (lines 105-124): read tokens till one is not an error
RECURSIVE next_token(_)
\* A read that leaves the scanner where it is
TakeToken_Stuck(p) == [p EXCEPT !.current = scan_token(p)]
TakeToken(p) ==
    IF p.token_buffer # <<>>
    THEN [p EXCEPT !.current = Top(p.token_buffer), !.token_buffer = Front(@)]
    ELSE [p EXCEPT !.current = scan_token(p),
                   !.scan_pos = Min(@ + 1, Len(p.source) + 1)]
SkipError(p1) ==
    IF p1.current.token_type # "ERROR" THEN p1
    ELSE next_token(error_at(p1, Token("ERROR", p1.current.lexeme, p1.current.line,
                                       p1.current.col, ""),
                             p1.current.error))
next_token(p) == IF ~Running(p) THEN p ELSE SkipError(TakeToken(Tick(p)))

\* advance (lines 101-124)
advance(p) ==
    IF ~Running(p) THEN p ELSE next_token([p EXCEPT !.previous = p.current])

\* check (lines 178-179)
check(p, token_type) == p.current.token_type = token_type
\* match (lines 181-185): the state after it; it returned check(p, token_type)
match(p, token_type) == IF check(p, token_type) THEN advance(p) ELSE p
\* consume (lines 86-91)
consume(p, token_type, message) ==
    IF check(p, token_type) THEN advance(p) ELSE error_at_current(p, message)

\* int(lexeme) of a lexeme of decimal digits (lines 404, 298, 302)
Digit(c) ==
    CASE c = "0" -> 0 [] c = "1" -> 1 [] c = "2" -> 2 [] c = "3" -> 3
      [] c = "4" -> 4 [] c = "5" -> 5 [] c = "6" -> 6 [] c = "7" -> 7
      [] c = "8" -> 8 [] c = "9" -> 9
RECURSIVE int(_)
int(lexeme) ==
    IF lexeme = <<>> THEN 0 ELSE 10 * int(Front(lexeme)) + Digit(Top(lexeme))

\* float(lexeme) of a lexeme "d.d" (line 410): the number as its digits and
\* the count of decimal places, without trailing zeros
RECURSIVE Normal(_, _)
Normal(digits, places) ==
    IF places > 0 /\ digits % 10 = 0 THEN Normal(digits \div 10, places - 1)
    ELSE Const("float", <<digits, places>>)
DotAt(lexeme) == CHOOSE i \in 1..(Len(lexeme) + 1) :
                    i = Len(lexeme) + 1 \/ lexeme[i] = "."
float(lexeme) ==
    Normal(int(SelectSeq(lexeme, LAMBDA c : c # ".")),
           Max(0, Len(lexeme) - DotAt(lexeme)))

\* What Python does with the text of an embedded expression: eval under
\* vars(math) (line 419), then float() of the value (line 423)
eval(expression) ==
    CASE expression = <<"1", "+", "1">> -> [raises |-> "none", value |-> IntC(2)]
      [] expression = <<"'", "a", "'">> -> [raises |-> "none", value |-> Str("a")]
      [] expression = <<"[", "]">> -> [raises |-> "none", value |-> ListV(<<>>)]
      [] expression = <<"x">> -> [raises |-> "NameError", value |-> NoneV]
      [] expression = <<"1", "/", "0">> -> [raises |-> "ZeroDivisionError", value |-> NoneV]
      [] expression = <<"1", "(", ")">> -> [raises |-> "TypeError", value |-> NoneV]
      [] expression = <<"l", "o", "g", "(", "0", ")">> -> [raises |-> "ValueError", value |-> NoneV]
      [] OTHER -> [raises |-> "SyntaxError", value |-> NoneV]
to_float(value) ==
    IF value.k = "const" /\ value.ty = "int"
    THEN [raises |-> "none", value |-> Const("float", <<value.v, 0>>)]
    ELSE IF value.k = "const" THEN [raises |-> "none", value |-> value]
    ELSE IF value.k = "str" THEN [raises |-> "ValueError", value |-> NoneV]
    ELSE [raises |-> "TypeError", value |-> NoneV]

\* string_to_data_type (backends/type_defs)
string_to_data_type(lexeme) ==
    CASE lexeme = <<"f", "l", "o", "a", "t">> -> "FLOAT"
      [] lexeme = <<"i", "n", "t">> -> "INT"
      [] OTHER -> "None"

join_geometry == <<"j", "o", "i", "n", "_", "g", "e", "o", "m", "e", "t", "r", "y">>

RECURSIVE parse_precedence(_, _, _), infix_loop(_, _, _), declaration(_),
          call_args_loop(_, _, _), keyword_loop(_, _, _), out_loop(_, _),
          targets_loop(_, _), body_loop(_, _), args_loop(_, _),
          returns_loop(_, _), synchronize_loop(_)

\* expression (lines 187-189)
\* An expression parsed at the level of a statement
expression_assignable(p) == parse_precedence(p, ASSIGNMENT, FALSE)
expression(p) == parse_precedence(p, OR, FALSE)

\* make_int (lines 402-405)
make_int(p) ==
    [p EXCEPT !.curr_node = Constant(IntC(int(p.previous.lexeme)), "INT")]
\* make_float (lines 408-411)
make_float(p) ==
    [p EXCEPT !.curr_node = Constant(float(p.previous.lexeme), "FLOAT")]

\* python (lines 414-427)
python_convert(p1, f) ==
    IF ~Running(p1) THEN p1
    ELSE IF f.raises = "none"
    THEN [p1 EXCEPT !.curr_node = Constant(f.value, "FLOAT")]
    ELSE IF f.raises = "ValueError"
    THEN [error(p1, <<"Expected result of python expression to be a number: ", f.raises, ".">>)
             EXCEPT !.curr_node = Constant(Const("float", <<0, 0>>), "FLOAT")]
    ELSE Raise(p1, f.raises)
python_eval(p, r) ==
    IF r.raises = "none" THEN python_convert(p, to_float(r.value))
    ELSE IF r.raises \in {"SyntaxError", "NameError", "TypeError", "ZeroDivisionError"}
    THEN python_convert(error(p, <<"Invalid python syntax: ", r.raises, ".">>), to_float(IntC(0)))
    ELSE Raise(p, r.raises)
python(p) == python_eval(p, eval(Tail(p.previous.lexeme)))

\* default (lines 430-431)
default(p) == [p EXCEPT !.curr_node = Constant(NoneV, "DEFAULT")]

\* The target list of an assignment or of out: one target (lines 440-445,
\* 229-234); ret is the list so far
target(p, targets, message) ==
    IF check(p, "IDENTIFIER")
    THEN Return(advance(p), Append(targets, NameV(p.current.lexeme)))
    ELSE IF check(p, "UNDERSCORE")
    THEN Return(advance(p), Append(targets, NoneV))
    ELSE Return(error_at_current(p, message), targets)

\* identifier (lines 434-455)
targets_sep(p1) ==
    IF check(p1, "COMMA") THEN targets_loop(advance(p1), p1.ret) ELSE p1
targets_loop(p, targets) ==
    IF ~Running(p) THEN p
    ELSE IF check(p, "EQUAL") THEN Return(p, targets)
    ELSE targets_sep(target(Tick(p), targets,
                            "Expect variable name or \"_\" separated by \",\". "))
assign_end(p3, targets) ==
    IF ~Running(p3) \/ p3.ret = NoneV THEN p3
    ELSE [p3 EXCEPT !.curr_node = Assign(targets, p3.ret)]
assign_value(p2) ==
    IF ~Running(p2) THEN p2
    ELSE assign_end(expression(consume(p2, "EQUAL", "Expect \"=\"")), p2.ret)
identifier(p, can_assign) ==
    IF can_assign /\ (check(p, "EQUAL") \/ check(p, "COMMA"))
    THEN assign_value(targets_loop(IF check(p, "EQUAL") THEN p ELSE advance(p),
                                   <<NameV(p.previous.lexeme)>>))
    ELSE [p EXCEPT !.curr_node = NameV(p.previous.lexeme)]

\* string (lines 458-460)
string(p) ==
    [p EXCEPT !.curr_node =
        Constant(Str(SubSeq(p.previous.lexeme, 2, Len(p.previous.lexeme) - 1)),
                 "STRING")]
\* boolean (lines 463-465)
boolean(p) ==
    [p EXCEPT !.curr_node =
        Constant(Const("bool", p.previous.lexeme = <<"t", "r", "u", "e">>), "BOOL")]

\* grouping (lines 468-470)
grouping_end(p1) ==
    IF ~Running(p1) THEN p1
    ELSE consume([p1 EXCEPT !.curr_node = p1.ret], "RIGHT_PAREN",
                 "Expect closing \")\" after expression.")
grouping(p) == grouping_end(expression(p))

\* unary (lines 473-490)
unary_end(p1, operator_type) ==
    IF ~Running(p1) \/ p1.ret = NoneV THEN p1
    ELSE IF operator_type = "MINUS"
    THEN [p1 EXCEPT !.curr_node = UnaryOp("USub", p1.ret)]
    ELSE IF operator_type = "NOT"
    THEN [p1 EXCEPT !.curr_node = UnaryOp("Not", p1.ret)]
    ELSE Raise(p1, "AssertionError")
unary(p) == unary_end(parse_precedence(p, UNARY, FALSE), p.previous.token_type)

\* make_vector (lines 493-508)
vector_end(p, x, y, z) ==
    IF ~Running(p) \/ x = NoneV \/ y = NoneV \/ z = NoneV THEN p
    ELSE [p EXCEPT !.curr_node = Vec3(x, y, z)]
vector_close(p, x, y, z) ==
    vector_end(consume(p, "RIGHT_BRACE", "Expect closing \"}\"."), x, y, z)
vector_zz(p3, x, y) == vector_close(p3, x, y, p3.ret)
vector_z(p2, x) ==
    IF ~Running(p2) THEN p2
    ELSE IF check(p2, "COMMA") THEN vector_zz(expression(advance(p2)), x, p2.ret)
    ELSE vector_close(p2, x, p2.ret, Constant(IntC(0), "DEFAULT"))
vector_y(p1) ==
    IF ~Running(p1) THEN p1
    ELSE IF check(p1, "COMMA") THEN vector_z(expression(advance(p1)), p1.ret)
    ELSE vector_close(p1, p1.ret, Constant(IntC(0), "DEFAULT"),
                      Constant(IntC(0), "DEFAULT"))
make_vector(p) ==
    IF check(p, "RIGHT_BRACE")
    THEN vector_end(advance(p), Constant(IntC(0), "DEFAULT"),
                    Constant(IntC(0), "DEFAULT"), Constant(IntC(0), "DEFAULT"))
    ELSE vector_y(expression(p))

\* call_args (lines 340-386); ret is None or the two argument lists
CallArgs(pos_args, keyword_args) ==
    [k |-> "args", pos_args |-> pos_args, keyword_args |-> keyword_args]
call_args_end(p, pos_args, keyword_args) ==
    IF ~Running(p) THEN p
    ELSE Return(consume(p, "RIGHT_PAREN", "Expect \")\" after arguments."),
                CallArgs(pos_args, keyword_args))
keyword_done(p2, arg_token, pos_args, keyword_args) ==
    IF ~Running(p2) \/ p2.ret = NoneV THEN p2
    ELSE keyword_loop(p2, pos_args,
                      Append(keyword_args, Keyword(arg_token.lexeme, p2.ret)))
keyword_name(p1, pos_args, keyword_args) ==
    keyword_done(expression(consume(p1, "EQUAL", "Expect \"=\" after keyword.")),
                 p1.previous, pos_args, keyword_args)
\* After a keyword argument, arguments of either kind again
keyword_loop_either(p, pos_args, keyword_args) ==
    call_args_loop(p, pos_args, keyword_args)
keyword_loop(p, pos_args, keyword_args) ==
    IF ~Running(p) THEN p
    ELSE IF check(p, "COMMA")
    THEN keyword_name(consume(advance(Tick(p)), "IDENTIFIER",
                              "No positional arguments allowed after keyword argument."),
                      pos_args, keyword_args)
    ELSE call_args_loop(p, pos_args, keyword_args)
pos_arg_done(p2, pos_args, keyword_args) ==
    IF ~Running(p2) \/ p2.ret = NoneV THEN p2
    ELSE call_args_loop(p2, Append(pos_args, p2.ret), keyword_args)
call_arg_identifier(p1, pos_args, keyword_args) ==
    IF check(p1, "EQUAL")
    THEN keyword_done(expression(advance(p1)), p1.previous, pos_args, keyword_args)
    ELSE pos_arg_done(parse_precedence(p1, OR, TRUE), pos_args, keyword_args)
call_arg(p, pos_args, keyword_args) ==
    IF ~Running(p) THEN p
    ELSE IF check(p, "IDENTIFIER")
    THEN call_arg_identifier(advance(p), pos_args, keyword_args)
    ELSE pos_arg_done(expression(p), pos_args, keyword_args)
call_args_loop(p, pos_args, keyword_args) ==
    IF ~Running(p) THEN p
    ELSE IF check(p, "COMMA") THEN call_arg(advance(Tick(p)), pos_args, keyword_args)
    ELSE IF p.previous.token_type = "LEFT_PAREN"
    THEN call_arg(Tick(p), pos_args, keyword_args)
    ELSE call_args_end(p, pos_args, keyword_args)
call_args(p) ==
    IF check(p, "RIGHT_PAREN") THEN call_args_end(p, <<>>, <<>>)
    ELSE call_args_loop(p, <<>>, <<>>)

\* The end of group_name and of call (lines 516-525, 536-545)
\* Several positional arguments of any named callee become one list
join_args_any_name(func, pos_args) ==
    IF func.k = "name" /\ Len(pos_args) > 1
    THEN <<ListLiteral(pos_args)>> ELSE pos_args
join_args(func, pos_args) ==
    IF func.k = "name" /\ func.id = join_geometry /\ Len(pos_args) > 1
    THEN <<ListLiteral(pos_args)>>
    ELSE pos_args
call_end(p1, func) ==
    IF ~Running(p1) \/ p1.ret = NoneV THEN p1
    ELSE [p1 EXCEPT !.curr_node =
             Call(func, join_args(func, p1.ret.pos_args), p1.ret.keyword_args)]
\* group_name (lines 511-525)
group_name(p) ==
    call_end(call_args(consume(p, "LEFT_PAREN", "Expect \"(\" after node group name.")),
             NameV(SubSeq(p.previous.lexeme, 3, Len(p.previous.lexeme) - 1)))
\* call (lines 528-545)
call(p) ==
    IF p.curr_node = NoneV THEN Raise(p, "AssertionError")
    ELSE IF p.curr_node.k \notin {"name", "Attribute"}
    THEN error(p, "Expected function name to call.")
    ELSE call_end(call_args(p), p.curr_node)

\* dot (lines 548-557)
dot_end(p1, value) ==
    IF ~Running(p1) \/ value = NoneV THEN p1
    ELSE IF ~IsExpr(value) THEN Raise(p1, "AssertionError")
    ELSE [p1 EXCEPT !.curr_node = Attribute(value, p1.previous.lexeme)]
dot(p) ==
    dot_end(consume(p, "IDENTIFIER", "Expect output name or function call after \".\"."),
            p.curr_node)

\* binary (lines 560-605)
operator(operator_type) ==
    CASE operator_type = "PLUS" -> "Add"
      [] operator_type = "MINUS" -> "Sub"
      [] operator_type = "SLASH" -> "Div"
      [] operator_type = "STAR" -> "Mult"
      [] operator_type = "PERCENT" -> "Mod"
      [] operator_type \in {"STAR_STAR", "HAT"} -> "Pow"
      [] operator_type = "GREATER" -> "Gt"
      [] operator_type = "GREATER_EQUAL" -> "GtE"
      [] operator_type = "LESS" -> "Lt"
      [] operator_type = "LESS_EQUAL" -> "LtE"
      [] operator_type = "EQUAL_EQUAL" -> "Eq"
      [] operator_type = "BANG_EQUAL" -> "NotEq"
      [] operator_type = "AND" -> "And"
      [] operator_type = "OR" -> "Or"
      [] OTHER -> "None"
binary_end(p1, left, operator_type) ==
    IF ~Running(p1) \/ left = NoneV \/ p1.ret = NoneV THEN p1
    ELSE IF ~IsExpr(left) \/ ~IsExpr(p1.ret) \/ operator(operator_type) = "None"
    THEN Raise(p1, "AssertionError")
    ELSE [p1 EXCEPT !.curr_node = BinOp(left, operator(operator_type), p1.ret)]
\* The right operand parsed at the operator's own precedence
right_precedence_own(rule) == rule.precedence
\* The precedence the right operand is parsed at (lines 565-567)
right_precedence(rule) == rule.precedence + 1
binary(p) ==
    binary_end(parse_precedence(p, right_precedence(get_rule(p.previous.token_type)),
                                FALSE),
               p.curr_node, p.previous.token_type)

\* parse_precedence (lines 153-176)
prefix_rule(p, rule, can_assign) ==
    CASE rule = "grouping" -> grouping(p)
      [] rule = "make_vector" -> make_vector(p)
      [] rule = "unary" -> unary(p)
      [] rule = "default" -> default(p)
      [] rule = "identifier" -> identifier(p, can_assign)
      [] rule = "make_int" -> make_int(p)
      [] rule = "make_float" -> make_float(p)
      [] rule = "python" -> python(p)
      [] rule = "string" -> string(p)
      [] rule = "group_name" -> group_name(p)
      [] rule = "boolean" -> boolean(p)
infix_rule(p, rule) ==
    IF ~Running(p) THEN p
    ELSE CASE rule = "call" -> call(p)
           [] rule = "dot" -> dot(p)
           [] rule = "binary" -> binary(p)
           [] OTHER -> Raise(p, "TypeError")
infix_step(p1) == infix_rule(p1, get_rule(p1.previous.token_type).infix)
infix_loop(p, precedence, can_assign) ==
    IF ~Running(p) THEN p
    ELSE IF precedence <= get_rule(p.current.token_type).precedence
    THEN infix_loop(infix_step(advance(p)), precedence, can_assign)
    ELSE p
precedence_return(p3, can_assign) ==
    IF ~Running(p3) THEN p3
    ELSE IF p3.curr_node = NoneV
    THEN Return(error(p3, "Expected expression with a value."), NoneV)
    ELSE IF ~can_assign /\ ~IsExpr(p3.curr_node) THEN Raise(p3, "AssertionError")
    ELSE Return(p3, p3.curr_node)
precedence_end(p2, can_assign) ==
    IF ~Running(p2) THEN p2
    ELSE precedence_return(IF can_assign /\ check(p2, "EQUAL")
                           THEN error(advance(p2), "Invalid assignment target.")
                           ELSE p2,
                           can_assign)
prefix_step(p1, precedence) ==
    IF ~Running(p1) THEN p1
    ELSE IF get_rule(p1.previous.token_type).prefix = "None"
    THEN Return(error(p1, "Expect expression."), NoneV)
    ELSE precedence_end(
             infix_loop(prefix_rule(p1, get_rule(p1.previous.token_type).prefix,
                                    precedence <= ASSIGNMENT),
                        precedence, precedence <= ASSIGNMENT),
             precedence <= ASSIGNMENT)
parse_precedence(p, precedence, skip_advance) ==
    IF ~Running(p) THEN p
    ELSE prefix_step(IF skip_advance THEN p ELSE advance(p), precedence)

\* statement (lines 191-197)
statement_end(p1) ==
    IF ~Running(p1) THEN p1
    ELSE [match(p1, "SEMICOLON") EXCEPT !.curr_node = NoneV]
statement(p) == statement_end(parse_precedence(p, ASSIGNMENT, FALSE))

\* parse_type (lines 199-208)
parse_type_name(p1) ==
    IF ~check(p1, "IDENTIFIER")
    THEN Return(error(p1, "Expected a data type"), "UNKNOWN")
    ELSE IF string_to_data_type(p1.current.lexeme) # "None"
    THEN Return(advance(p1), string_to_data_type(p1.current.lexeme))
    ELSE Return(error(advance(p1), <<"Invalid data type: ", p1.current.lexeme, ".">>),
                "UNKNOWN")
parse_type(p) ==
    parse_type_name(consume(p, "COLON", "Expected type after argument name."))

\* parse_arg (lines 210-218)
parse_arg_end(p3, name, var_type) ==
    IF ~Running(p3) THEN p3 ELSE Return(p3, ArgNode(name, var_type, p3.ret))
parse_arg_default(p2, name) ==
    IF ~Running(p2) THEN p2
    ELSE IF check(p2, "EQUAL")
    THEN parse_arg_end(expression(advance(p2)), name, p2.ret)
    ELSE Return(p2, ArgNode(name, p2.ret, NoneV))
parse_arg_type(p1) == parse_arg_default(parse_type(p1), p1.previous.lexeme)
parse_arg(p) == parse_arg_type(consume(p, "IDENTIFIER", "Expect argument name"))

\* out (lines 220-246)
out_sep(p1) ==
    IF check(p1, "COMMA") THEN out_loop(advance(p1), p1.ret)
    ELSE consume(p1, "EQUAL", "Expected \"=\". ")
out_loop(p, targets) ==
    IF ~Running(p) THEN p
    ELSE IF check(p, "EQUAL") THEN Return(advance(p), targets)
    ELSE out_sep(target(Tick(p), targets, "Expect variable name or \"_\" after \"out\"."))
out_end(p2, targets) ==
    IF ~Running(p2) \/ p2.ret = NoneV THEN p2
    ELSE [match(p2, "SEMICOLON") EXCEPT !.curr_node = NoneV,
                                        !.ret = OutNode(targets, p2.ret)]
out_value(p1, token) ==
    IF ~Running(p1) THEN p1
    ELSE out_end(expression(IF p1.ret = <<>>
                            THEN error_at(p1, token,
                                          "Expect variable name or \"_\" after \"out\".")
                            ELSE p1),
                 p1.ret)
out(p) == out_value(out_loop(p, <<>>), p.previous)

\* The body of a function, a node group or a loop (lines 264-270, 317-323)
body_statement(p1, body) ==
    IF ~Running(p1) THEN p1
    ELSE body_loop(p1, IF p1.ret = NoneV THEN body ELSE Append(body, p1.ret))
body_loop(p, body) ==
    IF ~Running(p) THEN p
    ELSE IF check(p, "RIGHT_BRACE") THEN Return(p, body)
    ELSE IF check(p, "EOL") THEN Return(advance(p), body)
    ELSE body_statement(declaration(Tick(p)), body)
body_end(p2) ==
    IF ~Running(p2) THEN p2
    ELSE [consume(p2, "RIGHT_BRACE", "Expect closing \"}\".") EXCEPT !.curr_node = NoneV]

\* parse_func_structure (lines 248-271); ret is (args, body, returns)
args_sep(p1, args) ==
    IF ~Running(p1) THEN p1
    ELSE IF check(p1, "COMMA") THEN args_loop(advance(p1), Append(args, p1.ret))
    ELSE Return(p1, Append(args, p1.ret))
args_loop(p, args) ==
    IF ~Running(p) THEN p
    ELSE IF check(p, "RIGHT_PAREN") THEN Return(p, args)
    ELSE args_sep(parse_arg(Tick(p)), args)
returns_loop(p, returns) ==
    IF ~Running(p) THEN p
    ELSE IF check(p, "COMMA")
    THEN returns_loop(parse_arg(advance(Tick(p))), Append(returns, p.ret))
    ELSE Return(p, Append(returns, p.ret))
func_end(p4, args, returns) ==
    IF ~Running(p4) THEN p4
    ELSE Return(p4, [args |-> args, body |-> p4.ret, returns |-> returns])
func_body(p3, args) ==
    IF ~Running(p3) THEN p3
    ELSE func_end(body_end(body_loop(consume(p3, "LEFT_BRACE", "Expect function body."),
                                     <<>>)),
                  args, p3.ret)
func_returns(p2) ==
    IF ~Running(p2) THEN p2
    ELSE func_body(IF check(p2, "ARROW") THEN returns_loop(parse_arg(advance(p2)), <<>>)
                   ELSE Return(p2, <<>>),
                   p2.ret)
parse_func_structure(p) ==
    func_returns(consume(args_loop(consume(p, "LEFT_PAREN", "Expect \"(\" after name."),
                                   <<>>),
                         "RIGHT_PAREN", "Expect closing \")\"."))

\* The name of a definition (lines 274-279, 284-289)
def_name(p, message) ==
    IF check(p, "IDENTIFIER") \/ check(p, "STRING") THEN advance(p)
    ELSE error(p, message)
token_name(token) ==
    IF token.token_type = "STRING"
    THEN SubSeq(token.lexeme, 2, Len(token.lexeme) - 1)
    ELSE token.lexeme
\* function_def (lines 273-281)
function_def_end(p2, name) ==
    IF ~Running(p2) THEN p2
    ELSE Return(p2, FunctionDef(name, p2.ret.args, p2.ret.body, p2.ret.returns))
function_def_body(p1) ==
    function_def_end(parse_func_structure(p1), token_name(p1.previous))
function_def(p) == function_def_body(def_name(p, "Expected function name."))
\* nodegroup_def (lines 283-291)
nodegroup_def_end(p2, name) ==
    IF ~Running(p2) THEN p2
    ELSE Return(p2, NodegroupDef(name, p2.ret.args, p2.ret.body, p2.ret.returns))
nodegroup_def_body(p1) ==
    nodegroup_def_end(parse_func_structure(p1), token_name(p1.previous))
nodegroup_def(p) == nodegroup_def_body(def_name(p, "Expected node group name."))

\* parse_int (lines 293-302)
parse_int_value(p1, sign) ==
    IF ~Running(p1) THEN p1
    ELSE IF p1.panic_mode THEN Return(p1, 0)
    ELSE Return(p1, sign * int(p1.previous.lexeme))
parse_int(p) ==
    IF check(p, "MINUS")
    THEN parse_int_value(consume(advance(p), "INT", "Expected an integer"), -1)
    ELSE parse_int_value(consume(p, "INT", "Expected an integer"), 1)

\* loop (lines 304-324)
loop_end(p3, var, start, end) ==
    IF ~Running(p3) THEN p3 ELSE Return(p3, Loop(var, start, end, p3.ret))
loop_body(p2, var, start) ==
    IF ~Running(p2) THEN p2
    ELSE loop_end(body_end(body_loop(consume(p2, "LEFT_BRACE", "Expect loop body."),
                                     <<>>)),
                  var, start, p2.ret)
loop_range(p1, var) ==
    IF ~Running(p1) THEN p1
    ELSE IF check(p1, "ARROW") THEN loop_body(parse_int(advance(p1)), var, p1.ret)
    ELSE loop_body(p1, var, 1)
loop(p) ==
    IF check(p, "IDENTIFIER")
    THEN loop_range(parse_int(consume(advance(p), "EQUAL",
                                      "Expect \"=\" after loop variable.")),
                    NameV(p.current.lexeme))
    ELSE loop_range(parse_int(p), NoneV)

\* declaration (lines 326-338)
declaration_rule(p) ==
    IF check(p, "OUT") THEN out(advance(p))
    ELSE IF check(p, "FUNCTION") THEN function_def(advance(p))
    ELSE IF check(p, "NODEGROUP") THEN nodegroup_def(advance(p))
    ELSE IF check(p, "LOOP") THEN loop(advance(p))
    ELSE statement(p)
declaration(p) ==
    IF ~Running(p) THEN p
    ELSE declaration_rule([p EXCEPT !.starts = Append(@, p.curr_node)])

\* synchronize (lines 388-399)
synchronize_loop(p) ==
    IF ~Running(p) THEN p
    ELSE IF p.previous.token_type = "EOL" THEN p
    ELSE IF p.previous.token_type = "SEMICOLON" THEN p
    ELSE IF p.current.token_type \in {"OUT", "FUNCTION", "NODEGROUP"} THEN p
    ELSE synchronize_loop(advance(p))
synchronize_forget(p) ==
    synchronize_loop([p EXCEPT !.panic_mode = FALSE, !.had_error = FALSE,
                               !.synchronized = TRUE,
                               !.log = Append(@, "synchronize")])
synchronize(p) ==
    synchronize_loop([p EXCEPT !.panic_mode = FALSE, !.synchronized = TRUE,
                               !.log = Append(@, "synchronize")])

\* One turn of the loop of parse (lines 58-63) after its test
parse_synchronize(p1) ==
    IF Running(p1) /\ p1.panic_mode THEN synchronize(p1) ELSE p1
parse_turn(p) == parse_synchronize(declaration(Tick([p EXCEPT !.synchronized = FALSE])))

\* ------------------------------------------------------------------------
\* The operation streams the interpreter is run on: payloads and descriptors
\* as the compiler emits them.
\* ------------------------------------------------------------------------
B_Value == NodeInstance("ShaderNodeValue", <<>>, <<>>, <<0>>)
B_Math == NodeInstance("ShaderNodeMath", << <<"operation", "ADD">> >>, <<0, 1>>, <<0>>)
B_Sep == NodeInstance("ShaderNodeSeparateXYZ", <<>>, <<0>>, <<0, 1, 2>>)
B_SepP == NodeInstance("ShaderNodeSeparateXYZ", <<>>, <<>>, <<2, 0, 1>>)
B_Join == NodeInstance("GeometryNodeJoinGeometry", <<>>, <<0>>, <<0>>)
Builtins == <<B_Value, B_Math, B_Sep, B_SepP, B_Join>>

\* nodegroup g() -> r: float
G_g == CompiledNodeGroup("g", <<>>, <<TypedArg("r", "FLOAT", NoneV)>>,
          <<Op("CALL_BUILTIN", B_Value), Op("SET_FUNCTION_OUT", IntC(0))>>)
\* a second descriptor carrying the same name
G_g2 == CompiledNodeGroup("g", <<>>, <<TypedArg("r", "FLOAT", NoneV)>>,
          <<Op("CALL_BUILTIN", B_Value), Op("CALL_BUILTIN", B_Value),
            Op("SET_FUNCTION_OUT", IntC(0))>>)
\* nodegroup h(x: float) -> r: float, q: float, calling g in its body
G_h == CompiledNodeGroup("h", <<TypedArg("x", "FLOAT", IntC(3))>>,
          <<TypedArg("r", "FLOAT", NoneV), TypedArg("q", "FLOAT", NoneV)>>,
          <<Op("GET_VAR", Str("x")), Op("CREATE_VAR", Str("y")),
            Op("CALL_NODEGROUP", G_g), Op("SET_FUNCTION_OUT", IntC(1)),
            Op("GET_VAR", Str("y")), Op("SET_FUNCTION_OUT", IntC(0)),
            Op("END_OF_STATEMENT", NoneV)>>)
\* nodegroup m() -> r: float, whose body never fills r
G_missing == CompiledNodeGroup("m", <<>>, <<TypedArg("r", "FLOAT", NoneV)>>,
          <<Op("CALL_BUILTIN", B_Value)>>)
NodeGroups == <<G_g, G_g2, G_h, G_missing>>

\* function f(x) -> r, returning its argument
F_id == CompiledFunction(<<"x">>, 1,
          <<Op("GET_VAR", Str("x")), Op("SET_FUNCTION_OUT", IntC(0))>>)
\* a function that creates a variable x of its own
F_shadow == CompiledFunction(<<>>, 1,
          <<Op("CALL_BUILTIN", B_Value), Op("CREATE_VAR", Str("x")),
            Op("END_OF_STATEMENT", NoneV),
            Op("GET_VAR", Str("x")), Op("SET_FUNCTION_OUT", IntC(0))>>)
\* a function that ends a statement with a value left on its stack and
\* rebinds its parameter
F_eos == CompiledFunction(<<"x">>, 1,
          <<Op("GET_VAR", Str("x")), Op("CALL_BUILTIN", B_Value),
            Op("CREATE_VAR", Str("x")), Op("END_OF_STATEMENT", NoneV),
            Op("GET_VAR", Str("x")), Op("CREATE_VAR", Str("y")),
            Op("GET_VAR", Str("y")), Op("SET_FUNCTION_OUT", IntC(0)),
            Op("PUSH_VALUE", IntC(9)), Op("END_OF_STATEMENT", NoneV)>>)
\* two outputs, the arguments swapped
F_swap == CompiledFunction(<<"a", "b">>, 2,
          <<Op("GET_VAR", Str("a")), Op("SET_FUNCTION_OUT", IntC(1)),
            Op("GET_VAR", Str("b")), Op("SET_FUNCTION_OUT", IntC(0))>>)
\* three outputs taken from a builtin's struct
F_three == CompiledFunction(<<>>, 3,
          <<Op("CALL_BUILTIN", B_SepP), Op("SPLIT_STRUCT", NoneV),
            Op("SET_FUNCTION_OUT", IntC(1)), Op("SET_FUNCTION_OUT", IntC(2)),
            Op("SET_FUNCTION_OUT", IntC(0))>>)
\* no output: nothing is pushed
F_void == CompiledFunction(<<"x">>, 0,
          <<Op("GET_VAR", Str("x")), Op("CREATE_VAR", Str("y"))>>)
\* nested calls: a function and two node groups inside a function body
F_nested == CompiledFunction(<<>>, 1,
          <<Op("CALL_FUNCTION", F_shadow), Op("CREATE_VAR", Str("x")),
            Op("GET_VAR", Str("x")), Op("CALL_NODEGROUP", G_h),
            Op("GET_OUTPUT", IntC(0)), Op("CREATE_VAR", Str("y")),
            Op("CALL_NODEGROUP", G_g), Op("SET_FUNCTION_OUT", IntC(0))>>)
\* an output slot that the body never fills
F_missing == CompiledFunction(<<>>, 1, <<Op("CALL_BUILTIN", B_Value)>>)
Functions == <<F_id, F_shadow, F_eos, F_swap, F_three, F_void, F_nested, F_missing>>

PushPayloads == <<IntC(1), Const("float", 2), NameV("x"),
                  ListLiteral(<<IntC(1), NameV("x")>>)>>
VarNames == <<"x", "y">>
OutputIndices == <<0, 1, 2>>
PackCounts == <<0, 1, 2, 3>>

\* ------------------------------------------------------------------------
\* The interpreter run: one action per operation kind
\* ------------------------------------------------------------------------
\* ------------------------------------------------------------------------
\* The sources the parser is run on
\* ------------------------------------------------------------------------
Tok(token_type, lexeme) == [token_type |-> token_type, lexeme |-> lexeme, error |-> ""]
ErrorTok == [token_type |-> "ERROR", lexeme |-> <<"$">>, error |-> "Unrecognized token."]
Ident(c) == Tok("IDENTIFIER", <<c>>)
IntTok(c) == Tok("INT", <<c>>)
Lexemes ==
    [LEFT_PAREN |-> <<"(">>, RIGHT_PAREN |-> <<")">>, LEFT_BRACE |-> <<"{">>,
     RIGHT_BRACE |-> <<"}">>, COMMA |-> <<",">>, DOT |-> <<".">>,
     MINUS |-> <<"-">>, PLUS |-> <<"+">>, PERCENT |-> <<"%">>, SLASH |-> <<"/">>,
     HAT |-> <<"^">>, GREATER |-> <<">">>, LESS |-> <<"<">>, EQUAL |-> <<"=">>,
     SEMICOLON |-> <<";">>, COLON |-> <<":">>, UNDERSCORE |-> <<"_">>,
     STAR |-> <<"*">>, STAR_STAR |-> <<"*", "*">>, ARROW |-> <<"-", ">">>,
     LESS_EQUAL |-> <<"<", "=">>, GREATER_EQUAL |-> <<">", "=">>,
     EQUAL_EQUAL |-> <<"=", "=">>, BANG_EQUAL |-> <<"!", "=">>,
     NOT |-> <<"n", "o", "t">>, OR |-> <<"o", "r">>, AND |-> <<"a", "n", "d">>,
     OUT |-> <<"o", "u", "t">>, LOOP |-> <<"l", "o", "o", "p">>,
     FUNCTION |-> <<"f", "n">>, NODEGROUP |-> <<"n", "g">>,
     TRUE |-> <<"t", "r", "u", "e">>]
Sym(token_type) == Tok(token_type, Lexemes[token_type])
Python(text) == Tok("PYTHON", <<"#">> \o text)

\* Every token sequence of at most MaxLen tokens over these
CoreTokens ==
    {Ident("a"), IntTok("2"), ErrorTok, Python(<<"[", "]">>), Python(<<"x">>)}
    \cup {Sym(ty) : ty \in {"LEFT_PAREN", "RIGHT_PAREN", "LEFT_BRACE", "RIGHT_BRACE",
                            "COMMA", "DOT", "EQUAL", "SEMICOLON", "PLUS", "MINUS",
                            "NOT", "OUT"}}
ShortSources == UNION {[1..n -> CoreTokens] : n \in 0..MaxLen}

\* x o1 y o2 z for every two binary operators
BinaryOperators ==
    {"PLUS", "MINUS", "SLASH", "STAR", "PERCENT", "STAR_STAR", "HAT", "GREATER",
     "GREATER_EQUAL", "LESS", "LESS_EQUAL", "EQUAL_EQUAL", "BANG_EQUAL", "AND", "OR"}
UnaryOperators == {"MINUS", "NOT"}
Operands == {<<IntTok("2"), IntTok("3"), IntTok("4")>>,
             <<IntTok("2"), IntTok("3"), IntTok("2")>>,
             <<Ident("a"), Ident("b"), Ident("c")>>}
ChainSources ==
    {<<x[1], Sym(o1), x[2], Sym(o2), x[3]>> :
        x \in Operands, o1 \in BinaryOperators, o2 \in BinaryOperators}
\* u x o y for every unary and every binary operator
UnarySources ==
    {<<Sym(u), x[1], Sym(o), x[3]>> :
        x \in Operands, u \in UnaryOperators, o \in BinaryOperators}

\* Two malformed statements with a statement or declaration boundary between
\* them, at top level and as the body of a function, a node group or a loop
Mistakes == {<<Sym("RIGHT_PAREN")>>, <<Ident("a"), Sym("DOT")>>,
             <<Sym("LEFT_PAREN"), IntTok("2")>>}
SecondMistakes == {<<Sym("RIGHT_PAREN")>>, <<Sym("DOT"), Ident("a")>>,
                   <<Sym("OUT"), Sym("EQUAL"), IntTok("2")>>}
TwoMistakes ==
    {m1 \o (IF m2[1].token_type = "OUT" THEN <<>> ELSE <<Sym("SEMICOLON")>>) \o m2 :
        m1 \in Mistakes, m2 \in SecondMistakes}
Wrappers ==
    {<<>>,
     <<Sym("FUNCTION"), Ident("f"), Sym("LEFT_PAREN"), Sym("RIGHT_PAREN"),
       Sym("LEFT_BRACE")>>,
     <<Sym("NODEGROUP"), Ident("g"), Sym("LEFT_PAREN"), Sym("RIGHT_PAREN"),
       Sym("LEFT_BRACE")>>,
     <<Sym("LOOP"), IntTok("2"), Sym("LEFT_BRACE")>>}
Wrap(w, body) ==
    IF w = <<>> THEN body ELSE w \o body \o <<Sym("SEMICOLON"), Sym("RIGHT_BRACE")>>
MistakeSources == {Wrap(w, b) : w \in Wrappers, b \in TwoMistakes}

\* f(A1, ..., An): every list of at most MaxArgs arguments, each a number, a
\* name or a keyword argument
ArgForms == {<<IntTok("2")>>, <<Ident("b")>>,
             <<Ident("a"), Sym("EQUAL"), IntTok("1")>>}
ArgLists == UNION {[1..n -> ArgForms] : n \in 0..MaxArgs}
RECURSIVE CommaSeparated(_)
CommaSeparated(args) ==
    IF args = <<>> THEN <<>>
    ELSE IF Len(args) = 1 THEN args[1]
    ELSE args[1] \o <<Sym("COMMA")>> \o CommaSeparated(Tail(args))
CallSource(callee, args) ==
    <<callee, Sym("LEFT_PAREN")>> \o CommaSeparated(args) \o <<Sym("RIGHT_PAREN")>>
\* The callees: a name and a node group reference, each for join_geometry and
\* for another name
GroupTok(name) == Tok("GROUP_NAME", <<"g", "\"">> \o name \o <<"\"">>)
Callees == {Ident("f"), Tok("IDENTIFIER", join_geometry),
            GroupTok(<<"f">>), GroupTok(join_geometry)}
\* a.join_geometry(A1, ..., An): the callee is an attribute
AttributeCallSource(args) ==
    <<Ident("a"), Sym("DOT")>> \o CallSource(Tok("IDENTIFIER", join_geometry), args)
CallSources ==
    {CallSource(callee, args) : callee \in Callees, args \in ArgLists}
    \cup {AttributeCallSource(args) : args \in ArgLists}

\* Assignments, and an "=" after or inside something that is no target list,
\* at top level and as a statement of each kind of body
AssignForms ==
    {<<Ident("a"), Sym("EQUAL"), IntTok("2")>>,
     <<Ident("a"), Sym("COMMA"), Ident("b"), Sym("EQUAL"), IntTok("2")>>,
     <<Ident("a"), Sym("COMMA"), Sym("UNDERSCORE"), Sym("EQUAL"), IntTok("2")>>}
NestedAssignForms ==
    {<<IntTok("2"), Sym("EQUAL"), IntTok("2")>>,
     <<IntTok("2"), Sym("PLUS"), Ident("a"), Sym("EQUAL"), IntTok("2")>>,
     <<Sym("MINUS"), Ident("a"), Sym("EQUAL"), IntTok("2")>>,
     <<Ident("a"), Sym("DOT"), Ident("b"), Sym("EQUAL"), IntTok("2")>>,
     <<Ident("f"), Sym("LEFT_PAREN"), Sym("RIGHT_PAREN"), Sym("EQUAL"), IntTok("2")>>,
     <<Ident("a"), Sym("EQUAL"), Ident("b"), Sym("EQUAL"), IntTok("2")>>,
     <<Sym("LEFT_PAREN"), Ident("a"), Sym("EQUAL"), IntTok("2"), Sym("RIGHT_PAREN")>>,
     <<Sym("LEFT_BRACE"), Ident("a"), Sym("EQUAL"), IntTok("2"), Sym("COMMA"),
       IntTok("2"), Sym("COMMA"), IntTok("2"), Sym("RIGHT_BRACE")>>,
     <<Ident("f"), Sym("LEFT_PAREN"), IntTok("2"), Sym("EQUAL"), IntTok("2"),
       Sym("RIGHT_PAREN")>>,
     <<Ident("f"), Sym("LEFT_PAREN"), Ident("a"), Sym("EQUAL"), Ident("b"),
       Sym("EQUAL"), IntTok("2"), Sym("RIGHT_PAREN")>>,
     <<Ident("f"), Sym("LEFT_PAREN"), Sym("LEFT_PAREN"), Ident("a"), Sym("EQUAL"),
       IntTok("2"), Sym("RIGHT_PAREN"), Sym("RIGHT_PAREN")>>,
     <<Sym("OUT"), Ident("x"), Sym("EQUAL"), Ident("a"), Sym("EQUAL"), IntTok("2")>>}
AssignSources ==
    {Wrap(w, b) : w \in Wrappers, b \in AssignForms \cup NestedAssignForms}

\* Loops with one bound or two, each with or without a minus sign, with or
\* without a loop variable; at top level and in each kind of body, alone or
\* after a statement that is a mistake
LoopBound(minus, digit) ==
    (IF minus THEN <<Sym("MINUS")>> ELSE <<>>) \o <<IntTok(digit)>>
LoopBounds == {LoopBound(minus, digit) : minus \in BOOLEAN, digit \in {"2", "3"}}
LoopRanges ==
    {<<a>> : a \in LoopBounds} \cup {<<a, b>> : a \in LoopBounds, b \in LoopBounds}
LoopVars == {<<>>, <<Ident("i"), Sym("EQUAL")>>}
LoopForm(var, range) ==
    <<Sym("LOOP")>> \o var \o range[1]
    \o (IF Len(range) = 2 THEN <<Sym("ARROW")>> \o range[2] ELSE <<>>)
    \o <<Sym("LEFT_BRACE"), Sym("RIGHT_BRACE")>>
Earlier == {<<>>, <<Sym("RIGHT_PAREN"), Sym("SEMICOLON")>>}
LoopSource(w, before, var, range) ==
    w \o before \o LoopForm(var, range)
    \o (IF w = <<>> THEN <<>> ELSE <<Sym("RIGHT_BRACE")>>)
LoopSources ==
    {LoopSource(w, before, var, range) :
        w \in Wrappers, before \in Earlier, var \in LoopVars, range \in LoopRanges}

\* fn f(x: float = 2) { B } and ng g(x: float = 2) { B }: a body after an
\* argument with a default value
DefaultArg ==
    <<Sym("LEFT_PAREN"), Ident("x"), Sym("COLON"),
      Tok("IDENTIFIER", <<"f", "l", "o", "a", "t">>), Sym("EQUAL"), IntTok("2"),
      Sym("RIGHT_PAREN"), Sym("LEFT_BRACE")>>
DefaultBodies ==
    {<<>>, <<Ident("a"), Sym("SEMICOLON")>>,
     <<Sym("MINUS"), Sym("RIGHT_PAREN"), Sym("SEMICOLON")>>,
     <<Sym("MINUS"), Sym("RIGHT_PAREN"), Sym("SEMICOLON"), Ident("a"),
       Sym("SEMICOLON")>>}
DefaultSources ==
    {<<Sym(kw), Ident("f")>> \o DefaultArg \o body \o <<Sym("RIGHT_BRACE")>> :
        kw \in {"FUNCTION", "NODEGROUP"}, body \in DefaultBodies}

Sources ==
    ShortSources \cup ChainSources \cup UnarySources \cup MistakeSources
    \cup CallSources \cup AssignSources \cup LoopSources \cup DefaultSources

Cur ==
    [tree |-> tree, stack |-> stack, nodes |-> nodes,
     node_group_trees |-> node_group_trees, variables |-> variables,
     function_outputs |-> function_outputs, socket_table |-> socket_table,
     btrees |-> btrees, bnodes |-> bnodes, links |-> links, defaults |-> defaults,
     err |-> err, ng_calls |-> ng_calls]

\* ------------------------------------------------------------------------
\* Loading of custom implementations (file_loading.py).  l is the record of
\* the folder content and of file_data; a table is the set of the source
\* files whose implementations it holds.
\* ------------------------------------------------------------------------
std == <<"s", "t", "d">>
a_gn == <<"a", "_", "g", "n">>
b_sh == <<"b", "_", "s", "h">>
c_any == <<"c">>
cache_gn == <<"c", "a", "c", "h", "e", "_", "g", "n">>
cache_sh == <<"c", "a", "c", "h", "e", "_", "s", "h">>
\* sorted(os.listdir(default dir)) + sorted(os.listdir(dir))
SortedNames == <<std, a_gn, b_sh, c_any, cache_gn, cache_sh>>
Absent == [k |-> "absent"]
SourceFile(ok) == [k |-> "source", ok |-> ok]
CacheFile(table) == [k |-> "cache", table |-> table]

\* str.startswith, str.endswith
startswith(name, prefix) ==
    Len(name) >= Len(prefix) /\ SubSeq(name, 1, Len(prefix)) = prefix
endswith(name, suffix) ==
    Len(name) >= Len(suffix)
    /\ SubSeq(name, Len(name) - Len(suffix) + 1, Len(name)) = suffix
IsCacheName(filename) == startswith(filename, <<"c", "a", "c", "h", "e">>)
\* Lines 31-38: the files of both folders, the default library first
filepaths(l) == SelectSeq(SortedNames, LAMBDA name : l.folder[name] # Absent)

\* Lines 43-54: the tables are read from the files whose name starts with cache
RECURSIVE load_cached(_, _)
load_cached(l, paths) ==
    IF paths = <<>> THEN l
    ELSE LET filename == Head(paths)
             l1 == IF ~IsCacheName(filename) THEN l
                   ELSE IF endswith(filename, <<"_", "g", "n">>)
                   THEN [l EXCEPT !.geometry_nodes = l.folder[filename].table]
                   ELSE IF endswith(filename, <<"_", "s", "h">>)
                   THEN [l EXCEPT !.shader_nodes = l.folder[filename].table]
                   ELSE l
         IN  load_cached(l1, Tail(paths))

\* Compiler.check_functions on one file: the file joins the compiler's
\* functions when it has no errors, and is reported otherwise
check_functions(l, filename, which) ==
    [l EXCEPT !.compiled = @ \cup {filename},
              !.functions[which] =
                  IF l.folder[filename].ok THEN @ \cup {filename} ELSE @,
              !.errors = IF l.folder[filename].ok THEN @
                         ELSE Append(@, <<filename, which>>)]
\* Lines 57-70: every file that is not a cache goes to the compilers its
\* name selects
compile_file(l, filename) ==
    LET geo == endswith(filename, <<"_", "g", "n">>)
                  \/ ~endswith(filename, <<"_", "s", "h">>)
        sha == endswith(filename, <<"_", "s", "h">>)
                  \/ ~endswith(filename, <<"_", "g", "n">>)
        l1 == IF geo THEN check_functions(l, filename, "geo") ELSE l
    IN  IF sha THEN check_functions(l1, filename, "sha") ELSE l1
RECURSIVE compile_files(_, _)
compile_files(l, paths) ==
    IF paths = <<>> THEN l
    ELSE compile_files(IF IsCacheName(Head(paths)) THEN l
                       ELSE compile_file(l, Head(paths)),
                       Tail(paths))
\* Lines 73-83: store the tables and write both cache files
store_and_cache(l) ==
    [l EXCEPT !.geometry_nodes = l.functions["geo"],
              !.shader_nodes = l.functions["sha"],
              !.folder[cache_gn] = CacheFile(l.functions["geo"]),
              !.folder[cache_sh] = CacheFile(l.functions["sha"])]
\* The tables are stored and the caches written whatever the compilers reported
finish_forced_always(l) == store_and_cache(l)
\* Lines 71-83
finish_forced(l) == IF l.errors # <<>> THEN l ELSE store_and_cache(l)

\* load_custom_implementations (lines 23-83); the result is l.errors
load_custom_implementations(l, force_update) ==
    LET l0 == [l EXCEPT !.geometry_nodes = {}, !.shader_nodes = {},
                        !.errors = <<>>, !.compiled = {},
                        !.functions = [which \in {"geo", "sha"} |-> {}]]
    IN  IF ~force_update THEN load_cached(l0, filepaths(l0))
        ELSE finish_forced(compile_files(l0, filepaths(l0)))

\* MF_OT_load_custom_implementations.execute (lines 101-122); l1 is the
\* state after load_custom_implementations
execute_report(l1) ==
    IF l1.errors # <<>>
    THEN [l1 EXCEPT !.geometry_nodes = {}, !.shader_nodes = {},
                    !.report = "CANCELLED"]
    ELSE [l1 EXCEPT !.report = "FINISHED"]
execute(l, force_update) ==
    execute_report(load_custom_implementations(l, force_update))

TreeTypes == {"GeometryNodeTree", "ShaderNodeTree"}

\* Interpreter.__init__ (lines 19-30)
ParserInit(src) ==
    /\ source = src
    /\ scan_pos = Min(2, Len(src) + 1)
    /\ token_buffer = <<>>
    /\ current = scan_token([source |-> src, scan_pos |-> 1])
    /\ previous = current
    /\ had_error = FALSE
    /\ panic_mode = FALSE
    /\ curr_node = NoneV
    /\ errors = <<>>
    /\ module = <<>>
    /\ done = FALSE
    /\ raised = "none"
    /\ ticks = 0
    /\ log = <<>>
    /\ synchronized = FALSE
    /\ starts = <<>>

InterpInit(ty) ==
    /\ tree = 1
    /\ stack = <<>>
    /\ nodes = <<>>
    /\ node_group_trees = EmptyMap
    /\ variables = EmptyMap
    /\ function_outputs = <<>>
    /\ socket_table = EmptyMap
    /\ btrees = <<BTree("root", ty)>>
    /\ bnodes = <<>>
    /\ links = <<>>
    /\ defaults = <<>>
    /\ err = "none"
    /\ ng_calls = EmptyMap
    /\ last = Op("init", NoneV)
    /\ pre = NoneV
    /\ steps = 0

\* file_data = FileData() (line 20) and a folder with the default library
\* and the given source files, no cache written yet
SourceNames == {a_gn, b_sh, c_any}
LoaderInit(sources) ==
    /\ folder = [name \in {SortedNames[i] : i \in DOMAIN SortedNames} |->
                    IF name = std THEN SourceFile(TRUE)
                    ELSE IF name \in SourceNames THEN sources[name]
                    ELSE Absent]
    /\ geometry_nodes = {}
    /\ shader_nodes = {}
    /\ load_errors = <<>>
    /\ report = "none"
    /\ compiled = {}
    /\ request = [op |-> "init"]
    /\ loads = 0
NoSources == [name \in SourceNames |-> Absent]

InitInterp ==
    /\ \E ty \in TreeTypes : InterpInit(ty)
    /\ ParserInit(<<>>)
    /\ LoaderInit(NoSources)

Apply(t) ==
    /\ tree' = t.tree
    /\ stack' = t.stack
    /\ nodes' = t.nodes
    /\ node_group_trees' = t.node_group_trees
    /\ variables' = t.variables
    /\ function_outputs' = t.function_outputs
    /\ socket_table' = t.socket_table
    /\ btrees' = t.btrees
    /\ bnodes' = t.bnodes
    /\ links' = t.links
    /\ defaults' = t.defaults
    /\ err' = t.err
    /\ ng_calls' = t.ng_calls

\* Execute one more operation of the stream, unless the run was aborted
Step(op) ==
    /\ steps < MaxSteps
    /\ Apply(operation(Cur, op))
    /\ last' = op
    /\ pre' = Cur
    /\ steps' = steps + 1
    /\ UNCHANGED <<pvars, lvars>>

PushValue ==
    /\ err = "none"
    /\ \E i \in DOMAIN PushPayloads : Step(Op("PUSH_VALUE", PushPayloads[i]))
CreateVar ==
    /\ err = "none"
    /\ \E i \in DOMAIN VarNames : Step(Op("CREATE_VAR", Str(VarNames[i])))
GetVar ==
    /\ err = "none"
    /\ \E i \in DOMAIN VarNames : Step(Op("GET_VAR", Str(VarNames[i])))
GetOutputOp ==
    /\ err = "none"
    /\ \E i \in DOMAIN OutputIndices : Step(Op("GET_OUTPUT", IntC(OutputIndices[i])))
SetOutput ==
    /\ err = "none"
    /\ Step(Op("SET_OUTPUT", Tuple2(0, IntC(7))))
SetFunctionOut ==
    /\ err = "none"
    /\ Step(Op("SET_FUNCTION_OUT", IntC(0)))
SplitStruct ==
    /\ err = "none"
    /\ Step(Op("SPLIT_STRUCT", NoneV))
CallFunctionOp ==
    /\ err = "none"
    /\ \E i \in DOMAIN Functions : Step(Op("CALL_FUNCTION", Functions[i]))
CallNodegroup ==
    /\ err = "none"
    /\ \E i \in DOMAIN NodeGroups : Step(Op("CALL_NODEGROUP", NodeGroups[i]))
CallBuiltinOp ==
    /\ err = "none"
    /\ \E i \in DOMAIN Builtins : Step(Op("CALL_BUILTIN", Builtins[i]))
RenameNode ==
    /\ err = "none"
    /\ Step(Op("RENAME_NODE", Str("label")))
EndOfStatement ==
    /\ err = "none"
    /\ Step(Op("END_OF_STATEMENT", NoneV))
PackList ==
    /\ err = "none"
    /\ \E i \in DOMAIN PackCounts : Step(Op("PACK_LIST", IntC(PackCounts[i])))

NextInterp ==
    \/ PushValue
    \/ CreateVar
    \/ GetVar
    \/ GetOutputOp
    \/ SetOutput
    \/ SetFunctionOut
    \/ SplitStruct
    \/ CallFunctionOp
    \/ CallNodegroup
    \/ CallBuiltinOp
    \/ RenameNode
    \/ EndOfStatement
    \/ PackList

SpecInterp == InitInterp /\ [][NextInterp]_vars

\* ------------------------------------------------------------------------
\* The parser as a state machine: one action per turn of the loop of parse()
\* ------------------------------------------------------------------------
PCur ==
    [source |-> source, scan_pos |-> scan_pos, token_buffer |-> token_buffer,
     current |-> current, previous |-> previous, had_error |-> had_error,
     panic_mode |-> panic_mode, curr_node |-> curr_node, errors |-> errors,
     raised |-> raised, ret |-> NoneV, ticks |-> ticks,
     fuel |-> FuelPerToken * (Len(source) + 2), log |-> log,
     synchronized |-> synchronized, starts |-> starts]

PApply(t) ==
    /\ source' = t.source
    /\ scan_pos' = t.scan_pos
    /\ token_buffer' = t.token_buffer
    /\ current' = t.current
    /\ previous' = t.previous
    /\ had_error' = t.had_error
    /\ panic_mode' = t.panic_mode
    /\ curr_node' = t.curr_node
    /\ errors' = t.errors
    /\ raised' = t.raised
    /\ ticks' = t.ticks
    /\ log' = t.log
    /\ synchronized' = t.synchronized
    /\ starts' = t.starts

InitParser ==
    /\ InterpInit("GeometryNodeTree")
    /\ \E src \in Sources : ParserInit(src)
    /\ LoaderInit(NoSources)

\* while not self.match(EOL): declaration, append, synchronize (lines 58-63)
ParseDeclaration ==
    /\ raised = "none" /\ ~done
    /\ ~check(PCur, "EOL")
    /\ PApply(parse_turn(PCur))
    /\ module' = IF raised' = "none" /\ parse_turn(PCur).ret # NoneV
                 THEN Append(module, parse_turn(PCur).ret)
                 ELSE module
    /\ done' = FALSE
    /\ UNCHANGED <<ivars, lvars>>

\* self.match(EOL) succeeds: return module (lines 58, 64)
ParseReturn ==
    /\ raised = "none" /\ ~done
    /\ check(PCur, "EOL")
    /\ PApply(match(PCur, "EOL"))
    /\ done' = TRUE
    /\ UNCHANGED <<module, ivars, lvars>>

NextParser ==
    \/ ParseDeclaration
    \/ ParseReturn

SpecParser == InitParser /\ [][NextParser]_vars

\* ------------------------------------------------------------------------
\* The loader as a state machine: the handler, the operator, and the user
\* editing the source files between loads
\* ------------------------------------------------------------------------
LCur ==
    [folder |-> folder, geometry_nodes |-> geometry_nodes,
     shader_nodes |-> shader_nodes, errors |-> load_errors, report |-> report,
     compiled |-> compiled, functions |-> [which \in {"geo", "sha"} |-> {}]]
LApply(l) ==
    /\ folder' = l.folder
    /\ geometry_nodes' = l.geometry_nodes
    /\ shader_nodes' = l.shader_nodes
    /\ load_errors' = l.errors
    /\ report' = l.report
    /\ compiled' = l.compiled
SourceContents == {Absent, SourceFile(TRUE), SourceFile(FALSE)}
InitLoader ==
    /\ InterpInit("GeometryNodeTree")
    /\ ParserInit(<<>>)
    /\ \E sources \in [SourceNames -> SourceContents] : LoaderInit(sources)

\* load_custom_implementations called as load_post handler or directly
LoadCustomImplementations ==
    /\ loads < MaxLoads
    /\ \E force_update \in BOOLEAN :
          /\ LApply(load_custom_implementations(LCur, force_update))
          /\ request' = [op |-> "load", force_update |-> force_update,
                         folder |-> folder]
    /\ loads' = loads + 1
    /\ UNCHANGED <<ivars, pvars>>
\* The operator node.mf_load_custom_implementations
Execute ==
    /\ loads < MaxLoads
    /\ \E force_update \in BOOLEAN :
          /\ LApply(execute(LCur, force_update))
          /\ request' = [op |-> "execute", force_update |-> force_update,
                         folder |-> folder]
    /\ loads' = loads + 1
    /\ UNCHANGED <<ivars, pvars>>
\* The user writes, repairs, breaks or deletes a source file
EditSource ==
    /\ loads < MaxLoads
    /\ \E name \in SourceNames, content \in SourceContents :
          /\ folder[name] # content
          /\ folder' = [folder EXCEPT ![name] = content]
    /\ request' = [op |-> "edit"]
    /\ loads' = loads + 1
    /\ UNCHANGED <<geometry_nodes, shader_nodes, load_errors, report, compiled,
                   ivars, pvars>>

NextLoader ==
    \/ LoadCustomImplementations
    \/ Execute
    \/ EditSource

SpecLoader == InitLoader /\ [][NextLoader]_vars

\* ------------------------------------------------------------------------
\* Properties of the interpreter
\* ------------------------------------------------------------------------
GroupNames == {NodeGroups[i].name : i \in DOMAIN NodeGroups}
\* The inner trees the backend was asked to create under a name
InnerTreesNamed(name) == {t \in 2..Len(btrees) : btrees[t].name = name}
\* The input gateways created for a name: one per execution of the body
BodyRuns(name) ==
    {n \in 1..Len(bnodes) : /\ bnodes[n].type = "NodeGroupInput"
                            /\ bnodes[n].tree \in InnerTreesNamed(name)}
\* The reference nodes bound to an inner tree of that name
ReferenceNodes(name) ==
    {n \in 1..Len(bnodes) : /\ bnodes[n].type \in GroupNodeTypes
                            /\ bnodes[n].node_tree \in InnerTreesNamed(name)}
CallsOf(name) == IF name \in DOMAIN ng_calls THEN ng_calls[name] ELSE 0

Isolated(b, f, a) ==
    LET kept == Max(Len(b.stack) - Len(f.inputs), 0)
    IN  /\ a.variables = b.variables
        /\ Len(a.stack) = kept + (IF f.num_outputs = 0 THEN 0 ELSE 1)
        /\ \A i \in 1..kept : a.stack[i] = b.stack[i]
        /\ f.num_outputs = 1 => IsSocket(Top(a.stack))
        /\ f.num_outputs > 1 => /\ IsList(Top(a.stack))
                                /\ Len(Top(a.stack).items) = f.num_outputs

IsolatedIfOk(b, f, a) == Ok(a) => Isolated(b, f, a)

\* C2: isolation law of CALL_FUNCTION: after a call that completes, the
\* caller's environment is the mapping it was before the call and the
\* caller's stack is its old content with the arguments replaced by the
\* result; this for the call executed last and for a call of any function
\* of the stream in the current state.
C2_Isolation ==
    /\ (last.op_type = "CALL_FUNCTION" /\ err = "none") => Isolated(pre, last.data, Cur)
    /\ err = "none" =>
         \A i \in DOMAIN Functions :
            IsolatedIfOk(Cur, Functions[i],
                         operation(Cur, Op("CALL_FUNCTION", Functions[i])))

\* The spec's own scenario: the caller has bound x, then calls a function
\* that creates an x of its own and executes END_OF_STATEMENT; the call has
\* completed and pushed its result.
C2_Witness ==
    /\ last = Op("CALL_FUNCTION", F_shadow)
    /\ err = "none"
    /\ "x" \in DOMAIN pre.variables
    /\ variables = pre.variables
    /\ Len(stack) = Len(pre.stack) + 1

\* The port that a call declares as its output i
DeclaredOutput(b, callop, a, i) ==
    CASE callop.op_type = "CALL_BUILTIN" -> Sock(Top(a.nodes), "out", callop.data.outputs[i + 1])
      [] callop.op_type = "CALL_NODEGROUP" -> Sock(Top(a.nodes), "out", i)
      [] callop.op_type = "CALL_FUNCTION" ->
            ExecOps(EnterFunction(b, callop.data), callop.data.body).function_outputs[i + 1]
CallKinds == {"CALL_FUNCTION", "CALL_NODEGROUP", "CALL_BUILTIN"}
NumDeclaredOutputs(callop, a) ==
    CASE callop.op_type = "CALL_BUILTIN" -> Len(callop.data.outputs)
      [] callop.op_type = "CALL_NODEGROUP" -> Len(callop.data.outputs)
      [] callop.op_type = "CALL_FUNCTION" -> callop.data.num_outputs

\* C3: after a call with k >= 2 outputs, GET_OUTPUT(i) pushes the port of
\* declared output i, for every 0 <= i < k.
C3_OutputIndex ==
    (err = "none" /\ last.op_type \in CallKinds /\ NumDeclaredOutputs(last, Cur) >= 2) =>
        \A i \in 0..(NumDeclaredOutputs(last, Cur) - 1) :
            LET t == operation(Cur, Op("GET_OUTPUT", IntC(i)))
            IN  /\ Ok(t)
                /\ Top(t.stack) = DeclaredOutput(pre, last, Cur, i)
                /\ Front(t.stack) = Front(stack)

\* GET_OUTPUT(2) has been executed on the struct of a three-output call.
C3_Witness ==
    /\ last = Op("GET_OUTPUT", IntC(2))
    /\ err = "none"
    /\ steps >= 2
    /\ IsList(Top(pre.stack))
    /\ Len(Top(pre.stack).items) = 3
    /\ IsSocket(Top(stack))

\* The last n values of a stack, in the order they were pushed
LastN(stk, n) == SubSeq(stk, Len(stk) - n + 1, Len(stk))

\* C4: PACK_LIST(n) pushes one list holding the n popped values in push
\* order, and PACK_LIST(n) followed by SPLIT_STRUCT leaves the stack, and the
\* rest of the state, as before, for every stack of at least n values.
C4_PackSplitRoundTrip ==
    /\ (last.op_type = "PACK_LIST" /\ err = "none") =>
          /\ Top(stack) = ListV(LastN(pre.stack, last.data.v))
          /\ Front(stack) = SubSeq(pre.stack, 1, Len(pre.stack) - last.data.v)
    /\ err = "none" =>
          \A n \in 0..Len(stack) :
             LET p == operation(Cur, Op("PACK_LIST", IntC(n)))
             IN  /\ Ok(p)
                 /\ Top(p.stack) = ListV(LastN(stack, n))
                 /\ operation(p, Op("SPLIT_STRUCT", NoneV)) = Cur

\* PACK_LIST(3) has packed three different values, and SPLIT_STRUCT gives
\* them back.
C4_Witness ==
    /\ last = Op("PACK_LIST", IntC(3))
    /\ err = "none"
    /\ Len(pre.stack) = 3
    /\ pre.stack[1] # pre.stack[2]
    /\ pre.stack[2] # pre.stack[3]
    /\ operation(Cur, Op("SPLIT_STRUCT", NoneV)).stack = pre.stack

\* ------------------------------------------------------------------------
\* Properties of the parser
\* ------------------------------------------------------------------------
\* The node an operand token stands for
Operand(token) ==
    IF token.token_type = "INT" THEN Constant(IntC(Digit(token.lexeme[1])), "INT")
    ELSE NameV(token.lexeme)
Level(token) == rules(token.token_type).precedence
LeftTree(src) ==
    BinOp(BinOp(Operand(src[1]), operator(src[2].token_type), Operand(src[3])),
          operator(src[4].token_type), Operand(src[5]))
RightTree(src) ==
    BinOp(Operand(src[1]), operator(src[2].token_type),
          BinOp(Operand(src[3]), operator(src[4].token_type), Operand(src[5])))

\* C5: binary operators are left-associative: for operands x, y, z and two
\* binary operators of the same precedence level, x op1 y op2 z parses, without
\* a diagnostic, to the one statement BinOp(BinOp(x, op1, y), op2, z).
C5_LeftAssociative ==
    (done /\ source \in ChainSources /\ Level(source[2]) = Level(source[4]))
        => /\ module = <<LeftTree(source)>>
           /\ errors = <<>>

\* C5 witness: 2 ^ 3 ^ 2 has been parsed to (2 ^ 3) ^ 2.
C5_Witness ==
    /\ done
    /\ source = <<IntTok("2"), Sym("HAT"), IntTok("3"), Sym("HAT"), IntTok("2")>>
    /\ module = <<BinOp(BinOp(Constant(IntC(2), "INT"), "Pow", Constant(IntC(3), "INT")),
                        "Pow", Constant(IntC(2), "INT"))>>

\* C6: parse terminates on every token sequence: the tokens read and the loop
\* turns made never exceed FuelPerToken per token of the source (plus the two
\* reads of the end marker), and a parse that has neither returned nor raised
\* has not used them up.
C6_Terminates ==
    /\ raised # "Diverged"
    /\ ticks <= FuelPerToken * (Len(source) + 2)
    /\ (raised = "none" /\ ~done) => ticks < FuelPerToken * (Len(source) + 2)

\* C6 witness: parse has returned from a malformed source that opens a call
\* and a bracket it never closes, after synchronize ran to the end marker.
C6_Witness ==
    /\ done
    /\ source = <<Ident("a"), Sym("LEFT_PAREN"), Sym("LEFT_PAREN")>>
    /\ had_error
    /\ "synchronize" \in {log[i] : i \in DOMAIN log}
    /\ ticks > Len(source)

\* C7: the parser never raises: no parse leaves parse() by an exception.
C7_NeverRaises == raised = "none"

\* C8: two malformed statements separated by a boundary give two diagnostics,
\* at top level and inside the body of a function, a node group or a loop.
C8_TwoDiagnostics ==
    (done /\ source \in MistakeSources) => Len(errors) >= 2

\* C9: no diagnostic is appended after another one unless synchronize ran in
\* between, so the diagnostics are at most one more than the calls of
\* synchronize; and synchronize returns only when the last consumed token is a
\* semicolon or the end marker or the next token is out, function or nodegroup.
Appended == SelectSeq(log, LAMBDA e : e # "suppressed")
Count(e) == Cardinality({i \in DOMAIN log : log[i] = e})
C9_PanicSuppression ==
    /\ \A i \in 1..(Len(Appended) - 1) :
          ~(Appended[i] = "error" /\ Appended[i + 1] = "error")
    /\ Count("error") = Len(errors)
    /\ Len(errors) <= Count("synchronize") + 1
    /\ (synchronized /\ raised = "none")
          => \/ previous.token_type \in {"SEMICOLON", "EOL"}
             \/ current.token_type \in {"OUT", "FUNCTION", "NODEGROUP"}

\* C9 witness: a diagnostic was recorded, a second report was suppressed,
\* synchronize stopped after a semicolon, and the next statement was reported.
C9_Witness ==
    /\ Len(log) >= 4
    /\ SubSeq(log, 1, 4) = <<"error", "suppressed", "synchronize", "error">>
    /\ Len(errors) = 2
    /\ done

\* C10: of two operators the one of the higher level binds tighter: x o1 y o2 z
\* groups to the right exactly when o2 is of a higher level than o1, and a
\* prefix operator u (not at the level NOT, minus at the level UNARY) takes
\* x o y as its operand exactly when o is of a higher level than u.
PrefixLevel(token) == IF token.token_type = "NOT" THEN NOT ELSE UNARY
PrefixTree(src) ==
    IF Level(src[3]) > PrefixLevel(src[1])
    THEN UnaryOp(IF src[1].token_type = "NOT" THEN "Not" ELSE "USub",
                 BinOp(Operand(src[2]), operator(src[3].token_type), Operand(src[4])))
    ELSE BinOp(UnaryOp(IF src[1].token_type = "NOT" THEN "Not" ELSE "USub",
                       Operand(src[2])),
               operator(src[3].token_type), Operand(src[4]))
C10_Precedence ==
    /\ (done /\ source \in ChainSources)
          => module = <<IF Level(source[4]) > Level(source[2])
                        THEN RightTree(source) ELSE LeftTree(source)>>
    /\ (done /\ source \in UnarySources) => module = <<PrefixTree(source)>>

\* The arguments of a source by kind, and the nodes they stand for
IsKeywordArg(form) == Len(form) = 3
PositionalNodes(args) ==
    LET pos == SelectSeq(args, LAMBDA form : ~IsKeywordArg(form))
    IN  [i \in 1..Len(pos) |-> Operand(pos[i][1])]
KeywordNodes(args) ==
    LET kws == SelectSeq(args, LAMBDA form : IsKeywordArg(form))
    IN  [i \in 1..Len(kws) |-> Keyword(kws[i][1].lexeme, Operand(kws[i][3]))]
\* The first argument that follows a keyword argument and is not one itself
AfterKeyword(args) ==
    {j \in 2..Len(args) : /\ ~IsKeywordArg(args[j])
                          /\ \E i \in 1..(j - 1) : IsKeywordArg(args[i])}
FirstAfterKeyword(args) ==
    CHOOSE j \in AfterKeyword(args) : \A j2 \in AfterKeyword(args) : j <= j2
MessageOf(e) == e.message[Len(e.message)]

\* C11: in f(A1, ..., An), when the first argument that follows a keyword
\* argument without being one does not start with an identifier, the parse
\* records "No positional arguments allowed after keyword argument."; and a
\* call parsed without diagnostics has all its positional arguments before
\* its keyword arguments and yields Call(f, positionals, keywords).
C11_KeywordsLast ==
    \A args \in ArgLists :
        (done /\ source = CallSource(Ident("f"), args)) =>
            /\ (/\ AfterKeyword(args) # {}
                /\ args[FirstAfterKeyword(args)][1].token_type # "IDENTIFIER")
                  => /\ errors # <<>>
                     /\ MessageOf(errors[1]) =
                          "No positional arguments allowed after keyword argument."
            /\ errors = <<>>
                  => /\ AfterKeyword(args) = {}
                     /\ module = <<Call(NameV(<<"f">>), PositionalNodes(args),
                                        KeywordNodes(args))>>

\* C11 witness: f(a = 1, 2) has been parsed and the diagnostic recorded.
C11_Witness ==
    /\ done
    /\ source = CallSource(Ident("f"), <<<<Ident("a"), Sym("EQUAL"), IntTok("1")>>,
                                         <<IntTok("2")>>>>)
    /\ Len(errors) = 1
    /\ MessageOf(errors[1]) = "No positional arguments allowed after keyword argument."

\* An Assign occurs in an expression, at any depth
RECURSIVE AssignInside(_)
AssignInside(node) ==
    CASE node.k = "Assign" -> TRUE
      [] node.k = "UnaryOp" -> AssignInside(node.operand)
      [] node.k = "BinOp" -> AssignInside(node.left) \/ AssignInside(node.right)
      [] node.k = "Vec3" ->
            AssignInside(node.x) \/ AssignInside(node.y) \/ AssignInside(node.z)
      [] node.k = "Attribute" -> AssignInside(node.value)
      [] node.k = "listlit" ->
            \E i \in 1..Len(node.elements) : AssignInside(node.elements[i])
      [] node.k = "Call" ->
            \/ AssignInside(node.func)
            \/ \E i \in 1..Len(node.pos_args) : AssignInside(node.pos_args[i])
            \/ \E i \in 1..Len(node.keyword_args) :
                    AssignInside(node.keyword_args[i].value)
      [] OTHER -> FALSE
\* A statement whose Assign nodes are statements themselves, each with a
\* target list that starts with a name and continues with names and "_"
RECURSIVE AssignsAreStatements(_)
AssignsAreStatements(node) ==
    CASE node.k = "Assign" ->
            /\ ~AssignInside(node.value)
            /\ node.targets # <<>>
            /\ node.targets[1].k = "name"
            /\ \A i \in 1..Len(node.targets) : node.targets[i].k \in {"name", "none"}
      [] node.k = "Out" -> ~AssignInside(node.value)
      [] node.k \in {"FunctionDef", "NodegroupDef"} ->
            /\ \A i \in 1..Len(node.args) : ~AssignInside(node.args[i].default)
            /\ \A i \in 1..Len(node.body) : AssignsAreStatements(node.body[i])
      [] node.k = "Loop" ->
            \A i \in 1..Len(node.body) : AssignsAreStatements(node.body[i])
      [] OTHER -> ~AssignInside(node)
AssignTargets(form) ==
    LET names == SelectSeq(SubSeq(form, 1, Len(form) - 2),
                           LAMBDA token : token.token_type # "COMMA")
    IN  [i \in 1..Len(names) |->
            IF names[i].token_type = "UNDERSCORE" THEN NoneV
            ELSE NameV(names[i].lexeme)]

\* C12: in every module an Assign is a statement (of the module or of a
\* body), never part of an expression; a statement "names = 2" parses without
\* diagnostics to Assign(names, 2); and a statement with an "=" after another
\* expression, or inside an operand, parentheses, a vector, a call argument or
\* the value of an assignment or of "out", records a diagnostic.
C12_AssignOnlyStatement ==
    /\ \A i \in 1..Len(module) : AssignsAreStatements(module[i])
    /\ \A form \in AssignForms :
          (done /\ source = form) =>
              /\ errors = <<>>
              /\ module = <<Assign(AssignTargets(form),
                                   Operand(form[Len(form)]))>>
    /\ \A w \in Wrappers, form \in NestedAssignForms :
          (done /\ source = Wrap(w, form)) => errors # <<>>

\* C12 witness: fn f() { ( a = 2 ) ; } has been parsed with a diagnostic and
\* without an Assign in the body of f.
C12_Witness ==
    /\ done
    /\ source = <<Sym("FUNCTION"), Ident("f"), Sym("LEFT_PAREN"), Sym("RIGHT_PAREN"),
                  Sym("LEFT_BRACE"), Sym("LEFT_PAREN"), Ident("a"), Sym("EQUAL"),
                  IntTok("2"), Sym("RIGHT_PAREN"), Sym("SEMICOLON"),
                  Sym("RIGHT_BRACE")>>
    /\ errors # <<>>
    /\ \A i \in 1..Len(module) : ~AssignInside(module[i])

\* C13: a call executed on a stack that holds fewer values than the
\* descriptor has inputs aborts the run.
C13_ShortStackFatal ==
    (last.op_type \in CallKinds /\ Len(pre.stack) < Len(last.data.inputs))
        => err # "none"

\* The state in which the body of a call ended: of a function, or of a node
\* group that is not in the cache of state b
BodyEnd(b, callop) ==
    IF callop.op_type = "CALL_FUNCTION"
    THEN ExecOps(EnterFunction(b, callop.data), callop.data.body)
    ELSE LET s4 == NewInnerTree(b, callop.data, Len(b.btrees) + 1)
         IN  ExecOps(EnterNodeGroup(s4, callop.data, Len(s4.bnodes) - 1),
                     callop.data.body)
RunsBody(b, callop) ==
    \/ callop.op_type = "CALL_FUNCTION"
    \/ callop.op_type = "CALL_NODEGROUP" /\ ~IsCached(b, callop.data.name)
UnfilledSlot(b, callop) ==
    /\ RunsBody(b, callop)
    /\ Ok(BodyEnd(b, callop))
    /\ \E i \in 1..Len(BodyEnd(b, callop).function_outputs) :
            BodyEnd(b, callop).function_outputs[i] = NoneV

\* C14: a call whose body ends with a declared output slot unfilled aborts
\* the run, for CALL_FUNCTION and for the first build of a node group.
C14_MissingOutputFatal ==
    UnfilledSlot(pre, last) => err # "none"

\* C15: CREATE_VAR of a popped value completes: it binds the identifier to a
\* port, a list or an integer, or fails with an assertion error.
C15_CreateVarCompletes ==
    (last.op_type = "CREATE_VAR" /\ pre.stack # <<>>) =>
        \/ err = "AssertionError"
        \/ /\ err = "none"
           /\ last.data.s \in DOMAIN variables
           /\ \/ IsSocket(variables[last.data.s])
              \/ IsList(variables[last.data.s])
              \/ IsInt(variables[last.data.s])

\* The parameters a call binds: one per argument it gets
BoundInputs(b, f) ==
    {f.inputs[i] : i \in 1..Min(Len(f.inputs), Len(b.stack))}

\* C16: GET_VAR of an identifier that is unbound in the current environment
\* ends the run with KeyError and changes nothing else (nothing is pushed);
\* and a function body that starts by reading a variable that is not one of
\* the parameters the call bound ends the run with KeyError, whatever the
\* caller's environment holds.
C16_UnboundGetVarFatal ==
    /\ (last.op_type = "GET_VAR" /\ last.data.s \notin DOMAIN pre.variables)
          => Cur = [pre EXCEPT !.err = "KeyError"]
    /\ (/\ last.op_type = "CALL_FUNCTION"
        /\ last.data.body[1].op_type = "GET_VAR"
        /\ last.data.body[1].data.s \notin BoundInputs(pre, last.data))
          => err = "KeyError"

\* C16 witness: the caller has bound x; a function whose body reads x was
\* called without an argument for it, and the run ended with KeyError.
C16_Witness ==
    /\ last = Op("CALL_FUNCTION", F_id)
    /\ "x" \in DOMAIN pre.variables
    /\ pre.stack = <<>>
    /\ err = "KeyError"

\* Every entry of the mapping before is an entry of the mapping after
Extends(before, after) ==
    \A key \in DOMAIN before : key \in DOMAIN after /\ after[key] = before[key]

FrameCalls ==
    {Op("CALL_FUNCTION", Functions[i]) : i \in DOMAIN Functions}
    \cup {Op("CALL_NODEGROUP", NodeGroups[i]) : i \in DOMAIN NodeGroups}
\* The state in which the body of a two-output function starts: both output
\* slots of the frame are still unfilled
InFrame == EnterFunction(Cur, F_swap)
\* The state after a call made in that frame: the slots are still unfilled
\* and the target graph is the one of the frame
FrameKept(after) ==
    Ok(after) => /\ after.function_outputs = <<NoneV, NoneV>>
                 /\ after.tree = tree
\* The nodes a step created, and the trees it created
NewNodes == (Len(pre.bnodes) + 1)..Len(bnodes)
NewTrees == (Len(pre.btrees) + 1)..Len(btrees)

\* C18: a completed CALL_FUNCTION or CALL_NODEGROUP leaves the output slots
\* and the target graph as they were before the call; a call made inside a
\* frame whose slots are unfilled, opened in a state from which the run goes
\* on, leaves them unfilled, whatever the callee sets; and of the nodes a
\* completed CALL_NODEGROUP created, the reference node is the last one and
\* lies in the caller's graph, every other one lies
\* in a graph this call built, and a reference node created by the body lies
\* in the inner graph of the called node group.
C18_FrameRestore ==
    /\ (last \in FrameCalls /\ err = "none") =>
          /\ function_outputs = pre.function_outputs
          /\ tree = pre.tree
    /\ (err = "none" /\ steps < MaxSteps) =>
          \A callop \in FrameCalls : FrameKept(operation(InFrame, callop))
    /\ (last.op_type = "CALL_NODEGROUP" /\ err = "none") =>
          /\ Top(nodes) = Len(bnodes)
          /\ Len(bnodes) \in NewNodes
          /\ bnodes[Len(bnodes)].tree = pre.tree
          /\ bnodes[Len(bnodes)].type \in GroupNodeTypes
          /\ bnodes[Len(bnodes)].node_tree = node_group_trees[last.data.name]
          /\ \A n \in NewNodes \ {Len(bnodes)} :
                /\ bnodes[n].tree \in NewTrees
                /\ bnodes[n].type \in GroupNodeTypes =>
                      bnodes[n].tree = node_group_trees[last.data.name]

\* C18 witness: the first CALL_NODEGROUP of h has completed, and while
\* building h it built g: the reference node of g lies in the inner graph of
\* h and the reference node of h in the caller's graph.
C18_Witness ==
    /\ last = Op("CALL_NODEGROUP", G_h)
    /\ err = "none"
    /\ NewTrees = {node_group_trees["h"], node_group_trees["g"]}
    /\ \E n \in NewNodes : /\ bnodes[n].type \in GroupNodeTypes
                           /\ bnodes[n].node_tree = node_group_trees["g"]
                           /\ bnodes[n].tree = node_group_trees["h"]
    /\ bnodes[Len(bnodes)].node_tree = node_group_trees["h"]
    /\ bnodes[Len(bnodes)].tree = pre.tree

\* The body of the descriptor executes END_OF_STATEMENT
EndsStatement(callop) ==
    \E i \in 1..Len(callop.data.body) :
        callop.data.body[i].op_type = "END_OF_STATEMENT"
\* The values a call leaves below its arguments, and the results it pushes
KeptBelow(b, callop) == Max(Len(b.stack) - Len(callop.data.inputs), 0)
NumPushed(callop, a) == IF NumDeclaredOutputs(callop, a) = 0 THEN 0 ELSE 1

\* C19: END_OF_STATEMENT empties the stack and changes nothing else, and it
\* never fails; a completed call whose body executed END_OF_STATEMENT leaves
\* the caller's stack, below the arguments, as it was, with the result of the
\* call on top.
C19_EndOfStatement ==
    /\ last.op_type = "END_OF_STATEMENT" => Cur = [pre EXCEPT !.stack = <<>>]
    /\ (last \in FrameCalls /\ EndsStatement(last) /\ err = "none") =>
          /\ Len(stack) = KeptBelow(pre, last) + NumPushed(last, Cur)
          /\ SubSeq(stack, 1, KeptBelow(pre, last))
                = SubSeq(pre.stack, 1, KeptBelow(pre, last))

\* C19 witness: a function whose body executes END_OF_STATEMENT twice, once
\* with a value on its stack, was called with a value below its argument and
\* has completed.
C19_Witness ==
    /\ last = Op("CALL_FUNCTION", F_eos)
    /\ err = "none"
    /\ Len(pre.stack) = 2
    /\ stack = <<pre.stack[1], Top(stack)>>
    /\ IsSocket(Top(stack))

\* The name a callee token stands for
CalleeName(callee) ==
    IF callee.token_type = "GROUP_NAME"
    THEN SubSeq(callee.lexeme, 3, Len(callee.lexeme) - 1)
    ELSE callee.lexeme
\* The positional arguments the claim expects in the Call node
JoinedPositionals(name, args) ==
    IF name = <<"j", "o", "i", "n", "_", "g", "e", "o", "m", "e", "t", "r", "y">>
       /\ Len(PositionalNodes(args)) > 1
    THEN <<[k |-> "listlit", elements |-> PositionalNodes(args)]>>
    ELSE PositionalNodes(args)

\* C20: a call parsed without diagnostics, of a name or of a node group
\* reference alike, yields Call(name, P, keywords) where P is the one list
\* literal of the positional arguments in order when the name is
\* join_geometry and there are several of them, and the positional arguments
\* themselves otherwise; a call of the attribute a.join_geometry keeps its
\* positional arguments.
C20_JoinNormalisation ==
    \A args \in ArgLists :
        /\ \A callee \in Callees :
              (done /\ errors = <<>> /\ source = CallSource(callee, args)) =>
                  module = <<Call(NameV(CalleeName(callee)),
                                  JoinedPositionals(CalleeName(callee), args),
                                  KeywordNodes(args))>>
        /\ (done /\ errors = <<>> /\ source = AttributeCallSource(args)) =>
              /\ Len(module) = 1
              /\ module[1].k = "Call"
              /\ module[1].func.k = "Attribute"
              /\ module[1].pos_args = PositionalNodes(args)
              /\ module[1].keyword_args = KeywordNodes(args)

\* C20 witness: g"join_geometry"(2, b, a = 1) has been parsed without
\* diagnostics into a call with one positional argument, the list of 2 and b,
\* and the keyword argument a.
C20_Witness ==
    /\ done
    /\ errors = <<>>
    /\ source = CallSource(GroupTok(join_geometry),
                           <<<<IntTok("2")>>, <<Ident("b")>>,
                             <<Ident("a"), Sym("EQUAL"), IntTok("1")>>>>)
    /\ Len(module) = 1
    /\ module[1].pos_args =
          <<ListLiteral(<<Operand(IntTok("2")), Operand(Ident("b"))>>)>>
    /\ Len(module[1].keyword_args) = 1

\* The integer a bound of the source stands for
BoundValue(bound) ==
    IF Len(bound) = 2 THEN 0 - Digit(bound[2].lexeme[1]) ELSE Digit(bound[1].lexeme[1])
\* The Loop node the claim expects for a loop form
ExpectedLoop(var, range) ==
    Loop(IF var = <<>> THEN NoneV ELSE NameV(var[1].lexeme),
         IF Len(range) = 2 THEN BoundValue(range[1]) ELSE 1,
         BoundValue(range[Len(range)]),
         <<>>)
\* The statements of the module, or of the body that encloses the loop
Enclosing(w) ==
    IF w = <<>> THEN module
    ELSE IF module = <<>> THEN <<>>
    ELSE module[1].body

\* C21: a syntactically valid loop, at top level or in a body, alone or after
\* an earlier mistaken statement, is parsed to Loop with start 1 (one bound)
\* or the first bound (two bounds) and with the last bound as end.
C21_LoopBounds ==
    \A w \in Wrappers, before \in Earlier, var \in LoopVars, range \in LoopRanges :
        (done /\ source = LoopSource(w, before, var, range)) =>
            /\ Enclosing(w) # <<>>
            /\ Enclosing(w)[Len(Enclosing(w))] = ExpectedLoop(var, range)

\* The text the claim gives a diagnostic: position, "Error", the place (the
\* end of the input, or the lexeme of the token), a colon, the message
ClaimedText(e) ==
    <<"line:", e.token.line, ":", e.token.col, ": Error",
      IF e.token.token_type = "EOL" THEN <<" at end:">>
      ELSE <<" at \"", e.token.lexeme, "\":">>,
      " ", MessageOf(e)>>

\* C22: every recorded diagnostic has the text line:<L>:<C>: Error, then
\* at "<lexeme>" or, exactly for the end-of-input marker, at end, then a
\* colon, a space and the message.
C22_DiagnosticText ==
    \A i \in 1..Len(errors) : errors[i].message = ClaimedText(errors[i])

\* What a folder holds, as the claims about the loader see it
HasCache(f) == f[cache_gn] # Absent /\ f[cache_sh] # Absent
NoCache(f) == f[cache_gn] = Absent /\ f[cache_sh] = Absent
Present(f) == {name \in SourceNames \cup {std} : f[name] # Absent}
HasErrors(f) == \E name \in Present(f) : ~f[name].ok
GeometrySources(f) == Present(f) \cap {std, a_gn, c_any}
ShaderSources(f) == Present(f) \cap {std, b_sh, c_any}
IsLoad == request.op \in {"load", "execute"}

\* C23: a load with force_update false takes both tables from the cache
\* files when they exist, compiling nothing; and when no cache file exists
\* and no source file has errors, it ends with the implementations of the
\* source files in both tables.
C23_LoadsAll ==
    (IsLoad /\ ~request.force_update) =>
        /\ HasCache(request.folder) =>
              /\ compiled = {}
              /\ geometry_nodes = request.folder[cache_gn].table
              /\ shader_nodes = request.folder[cache_sh].table
        /\ (NoCache(request.folder) /\ ~HasErrors(request.folder)) =>
              /\ geometry_nodes = GeometrySources(request.folder)
              /\ shader_nodes = ShaderSources(request.folder)

\* The files reported in the returned list
Reported == {load_errors[i][1] : i \in 1..Len(load_errors)}

\* C24: a load with force_update true, of a folder in which a source file
\* has errors, returns a non-empty list naming the files with errors, leaves
\* both tables empty and the folder as it was (no cache file written), and
\* the operator returns CANCELLED; of a folder without errors it returns the
\* empty list, stores the implementations of the source files in both tables,
\* writes each table to its cache file, and the operator returns FINISHED.
C24_ForcedAllOrNothing ==
    (IsLoad /\ request.force_update) =>
        /\ HasErrors(request.folder) =>
              /\ load_errors # <<>>
              /\ Reported = {name \in Present(request.folder) :
                                ~request.folder[name].ok}
              /\ geometry_nodes = {}
              /\ shader_nodes = {}
              /\ folder = request.folder
              /\ request.op = "execute" => report = "CANCELLED"
        /\ ~HasErrors(request.folder) =>
              /\ load_errors = <<>>
              /\ geometry_nodes = GeometrySources(request.folder)
              /\ shader_nodes = ShaderSources(request.folder)
              /\ folder = [request.folder EXCEPT
                              ![cache_gn] = CacheFile(geometry_nodes),
                              ![cache_sh] = CacheFile(shader_nodes)]
              /\ request.op = "execute" => report = "FINISHED"

\* C24 witness: with cache files of an earlier load in the folder, a source
\* file was broken and the operator run with force_update: it returned
\* CANCELLED, the tables are empty and the cache files are the earlier ones.
C24_Witness ==
    /\ request.op = "execute"
    /\ request.force_update
    /\ HasErrors(request.folder)
    /\ HasCache(request.folder)
    /\ report = "CANCELLED"
    /\ geometry_nodes = {}
    /\ folder[cache_gn] = request.folder[cache_gn]
    /\ folder[cache_gn].table # {}

\* C25 (as the specification states it): every call of declaration(), at top
\* level and in a function, node group or loop body, finds the current-node
\* register empty.
C25_CleanStart == \A i \in DOMAIN starts : starts[i] = NoneV

\* The nodes that calls created, in creation order: every node of the backend
\* but the NodeGroupInput and NodeGroupOutput nodes of the inner trees
CallCreated(b) ==
    SelectSeq([i \in 1..Len(b) |-> i],
              LAMBDA n : b[n].type \notin {"NodeGroupInput", "NodeGroupOutput"})

\* C26: while the run has not aborted, the created-node list holds exactly the
\* nodes that CALL_BUILTIN and CALL_NODEGROUP created, one per call, in
\* execution order, the calls made inside function and node group bodies
\* included; RENAME_NODE labels the newest of them and SET_OUTPUT sets a
\* default on the newest of them, and both abort with IndexError when no node
\* has been created yet.
C26_LatestNode ==
    /\ err = "none" => nodes = CallCreated(bnodes)
    /\ last.op_type = "RENAME_NODE" =>
          IF CallCreated(pre.bnodes) = <<>> THEN err = "IndexError"
          ELSE /\ err = "none"
               /\ bnodes = [pre.bnodes EXCEPT ![Top(CallCreated(pre.bnodes))].label =
                                                  last.data.s]
    /\ last.op_type = "SET_OUTPUT" =>
          IF CallCreated(pre.bnodes) = <<>> THEN err = "IndexError"
          ELSE err = "none" =>
                  defaults = Append(pre.defaults,
                                    [sock |-> Sock(Top(CallCreated(pre.bnodes)), "out",
                                                   last.data.index),
                                     value |-> last.data.value])

\* C26 witness: a function whose body calls a function and three node groups
\* was executed, and RENAME_NODE labelled the reference node of the last node
\* group called in that body.
C26_Witness ==
    /\ last.op_type = "RENAME_NODE" /\ err = "none"
    /\ Len(nodes) >= 5
    /\ bnodes[Top(nodes)].type \in GroupNodeTypes
    /\ bnodes[Top(nodes)].label = "label"
    /\ \E n \in 1..Len(bnodes) : bnodes[n].type = "NodeGroupInput"

\* The i-th of the n values on top of stack stk, in push order
PushedArg(stk, n, i) == stk[Len(stk) - n + i]
\* Argument arg reached input idx of node n: as a connection when it is a
\* port, as the input's default value when it is a constant
Wired(arg, n, idx) ==
    CASE IsSocket(arg) ->
            \E j \in (Len(pre.links) + 1)..Len(links) :
                links[j] = [tree |-> tree, from |-> arg, to |-> Sock(n, "in", idx)]
      [] IsList(arg) \/ arg = NoneV -> TRUE
      [] OTHER ->
            \E j \in (Len(pre.defaults) + 1)..Len(defaults) :
                defaults[j] = [sock |-> Sock(n, "in", idx), value |-> arg]
\* The arguments of the last call reached their places: the declared names of
\* a function, the inputs of the reference node or of the builtin node
ArgsInPlace(n) ==
    IF last.op_type = "CALL_FUNCTION"
    THEN \A i \in 1..n :
            EnterFunction(pre, last.data).variables[last.data.inputs[i]]
                = PushedArg(pre.stack, n, i)
    ELSE \A i \in 1..n : Wired(PushedArg(pre.stack, n, i), Top(nodes), i - 1)

\* C27 (as the specification states it): a completed call with n declared
\* inputs removed exactly the n values on top of the stack, left the values
\* below them as they were, and the i-th of the n in push order is bound to
\* the i-th declared name of the function or reached input i of the node.
C27_PopAndBind ==
    (last.op_type \in CallKinds /\ err = "none") =>
        /\ Len(pre.stack) >= Len(last.data.inputs)
        /\ Len(stack) = Len(pre.stack) - Len(last.data.inputs) + NumPushed(last, Cur)
        /\ SubSeq(stack, 1, Len(pre.stack) - Len(last.data.inputs))
              = SubSeq(pre.stack, 1, Len(pre.stack) - Len(last.data.inputs))
        /\ ArgsInPlace(Len(last.data.inputs))

\* The port that element e of a list argument resolves to in state b, and the
\* connections that a join node n makes for a list whose elements all resolve
\* to ports: one per element, the last element first
PortOf(b, e) == get_output_socket(b, ResolveName(b, e))
AllResolve(b, items) == \A i \in 1..Len(items) : IsSocket(PortOf(b, items[i]))
JoinLinks(b, items, n) ==
    [j \in 1..Len(items) |->
        [tree |-> b.tree, from |-> PortOf(b, items[Len(items) + 1 - j]),
         to |-> Sock(n, "in", 0)]]
\* List arguments built from the names x and y and from the ports on the stack
ListElements(b) ==
    {NameV("x"), NameV("y")} \cup {b.stack[i] : i \in {j \in 1..Len(b.stack) : IsSocket(b.stack[j])}}
JoinArguments(b) ==
    {<<e>> : e \in ListElements(b)}
    \cup {<<e, f>> : e \in ListElements(b), f \in ListElements(b)}
\* after is the state after CALL_BUILTIN of the join node on b with the list
\* of items on top of the stack
JoinedAll(b, items, after) ==
    /\ Ok(after)
    /\ Len(after.bnodes) = Len(b.bnodes) + 1
    /\ SubSeq(after.links, Len(b.links) + 1, Len(after.links))
          = JoinLinks(b, items, Len(after.bnodes))

\* C28: CALL_BUILTIN of GeometryNodeJoinGeometry with a list argument whose n
\* elements each resolve to a port (a port, a name bound to a port in the
\* variables, a port found in the socket table) makes exactly n connections
\* to input 0 (Geometry) of the new node, one per element: for the call just
\* executed, and for the call executed next on any list of names and ports.
C28_JoinLinksAll ==
    /\ (/\ last.op_type = "CALL_BUILTIN"
        /\ last.data.key = "GeometryNodeJoinGeometry"
        /\ pre.stack # <<>> /\ IsList(Top(pre.stack))
        /\ AllResolve(pre, Top(pre.stack).items))
          => JoinedAll(pre, Top(pre.stack).items, Cur)
    /\ err = "none" =>
          \A items \in JoinArguments(Cur) :
              AllResolve(Cur, items)
                => JoinedAll(Cur, items, CallBuiltin(Push(Cur, ListV(items)), B_Join))

\* C28 witness: the join node was called with the list of the three output
\* ports of a separate node, and three connections lead to its input 0.
C28_Witness ==
    /\ last.op_type = "CALL_BUILTIN" /\ last.data.key = "GeometryNodeJoinGeometry"
    /\ err = "none"
    /\ pre.stack # <<>> /\ IsList(Top(pre.stack))
    /\ Len(Top(pre.stack).items) = 3
    /\ AllResolve(pre, Top(pre.stack).items)
    /\ Len(links) = Len(pre.links) + 3
    /\ \A j \in (Len(pre.links) + 1)..Len(links) : links[j].to = Sock(Top(nodes), "in", 0)

\* C29 (as the specification states it): in every state of the parser neither
\* the current nor the previous token is an ERROR token.
C29_NoErrorToken ==
    /\ current.token_type # "ERROR"
    /\ previous.token_type # "ERROR"

\* The error flag agrees with the diagnostics list
FlagAgrees ==
    /\ had_error <=> errors # <<>>
    /\ panic_mode => had_error
\* A step only appends to the diagnostics list
OnlyGrows ==
    /\ Len(errors') >= Len(errors)
    /\ SubSeq(errors', 1, Len(errors)) = errors

\* C30: in every state of the parser had_error is true exactly when a
\* diagnostic has been recorded and panic_mode implies had_error; and every
\* step leaves the diagnostics recorded before it in place, unchanged.
C30_ErrorFlag == []FlagAgrees /\ [][OnlyGrows]_vars

\* C30 witness: parse() has returned with two diagnostics recorded, the
\* second one after synchronize had left panic mode, and the flag is set.
C30_Witness ==
    /\ done /\ raised = "none"
    /\ Len(errors) >= 2
    /\ had_error /\ ~panic_mode
    /\ Count("synchronize") >= 2

====
